---------------------------- MODULE Spec2Model ----------------------------
(***************************************************************************)
(* Instruction List interpreter (il_interpreter.c) and its GTK demo driver *)
(* (gtk_demo.c): the interpreter's accumulator, its two bounded stacks,    *)
(* the demo's bit/word memory behind the get/set callbacks, and the        *)
(* driver's program counter.                                               *)
(***************************************************************************)
EXTENDS Integers, Sequences, FiniteSets, TLC

VARIABLES
    accum,          \* il_interpreter.c: static uint16_t accum
    initialised,    \* il_interpreter.c: static bool initialised
    eval_stack,     \* il_interpreter.c: eval_stack[EVAL_STACK_MAX_DEPTH]
    eval_stack_top, \* il_interpreter.c: static int eval_stack_top
    call_stack,     \* il_interpreter.c: call_stack[CALL_STACK_MAX_DEPTH]
    call_stack_top, \* il_interpreter.c: static int call_stack_top
    bit_memory,     \* gtk_demo.c: bit_memory[2][MEM_SIZE] (toggle buttons)
    word_memory,    \* gtk_demo.c: word_memory[2][MEM_SIZE] (spin buttons)
    fault,          \* the process was stopped by a hardware trap
    call,           \* arguments of the latest il_interp_execute call
    ret,            \* value returned by the latest il_interp_execute call
    sites,          \* lines of the CALLs whose return line is still stacked
    groups,         \* (command, accum) of the groups stored and not yet popped
    base,           \* where the workload starts: the line of its outermost
                    \* call site, the first instruction of its nest
    program,        \* gtk_demo.c: program[NUM_LINES] (token, value) per line
    current_line,   \* gtk_demo.c: uint16_t current_line
    init,           \* gtk_demo.c: static bool init
    halt,           \* gtk_demo.c: static bool halt
    running,        \* gtk_demo.c: static bool running
    pc              \* gtk_demo.c: where execute_program() stands

interp == <<accum, initialised, eval_stack, eval_stack_top, call_stack,
            call_stack_top, fault>>
memory == <<bit_memory, word_memory>>
driver == <<program, current_line, init, halt, running, pc>>
vars == <<accum, initialised, eval_stack, eval_stack_top, call_stack,
          call_stack_top, bit_memory, word_memory, fault, call, ret, sites,
          groups,
          base, program, current_line, init, halt, running, pc>>

----------------------------------------------------------------------------
(* Program constants *)

EVAL_STACK_MAX_DEPTH == 20
CALL_STACK_MAX_DEPTH == 20

CMD_NOP == 0
CMD_LOAD == 1
CMD_STOR == 2
CMD_SET == 3
CMD_RST == 4
CMD_AND == 5
CMD_OR == 6
CMD_XOR == 7
CMD_ADD == 8
CMD_SUB == 9
CMD_MUL == 10
CMD_DIV == 11
CMD_GT == 12
CMD_GE == 13
CMD_EQ == 14
CMD_NE == 15
CMD_LE == 16
CMD_LT == 17
CMD_JMP == 18
CMD_CAL == 19
CMD_RET == 20
CMD_PAR == 21
CMD_MASK == 255

FLG_IMM == 4096
FLG_NEG == 8192
FLG_CND == 16384
FLG_PAR == 32768

NUM_LINES == 31
MEM_SIZE == 26

\* uint16_t: 2^16 values
UINT16_MOD == 65536
\* line = 65535 in the CMD_RET case: no context on the call stack
RET_SENTINEL == 65535

\* largest and smallest value of an int: the type of eval_stack_top, and of
\* the operands of the arithmetic after their promotion from uint16_t
INT_MAX == 2147483647
INT_MIN == -INT_MAX - 1

\* eval_stack_top is an int that every BeginGroup instruction increments:
\* the model opens no further group at this depth, but for the two
\* increments around INT_MAX
MaxEvalTop == 22

\* the values of eval_stack_top at which the model follows a push
PushFollowed(top) ==
    \/ top \in 0..(MaxEvalTop - 1)
    \/ top \in {INT_MAX - 1, INT_MAX, INT_MIN}

----------------------------------------------------------------------------
(* 16-bit arithmetic of the C code *)

U16(x) == x % UINT16_MOD

\* ~x on a uint16_t, stored back into a uint16_t
Not16(x) == (UINT16_MOD - 1) - x

\* cmd & CMD_MASK
Opcode(cmd) == cmd % (CMD_MASK + 1)

\* (cmd & flg) != 0 for one of the single-bit flags FLG_*
HasFlag(cmd, flg) == (cmd \div flg) % 2 = 1

RECURSIVE Bitwise(_, _, _, _)
\* op1 & op2, op1 | op2, op1 ^ op2 over n bits
Bitwise(op, a, b, n) ==
    IF n = 0 THEN 0
    ELSE LET x == a % 2
             y == b % 2
             bit == CASE op = CMD_AND -> x * y
                      [] op = CMD_OR  -> IF x + y > 0 THEN 1 ELSE 0
                      [] OTHER        -> (x + y) % 2
         IN  bit + 2 * Bitwise(op, a \div 2, b \div 2, n - 1)

BoolVal(b) == IF b THEN 1 ELSE 0

----------------------------------------------------------------------------
(* Parsing: tokens are strings, modelled as sequences of characters *)

\* match(str1, str2): 0 == strncmp(str1, str2, strlen(str1))
match(str1, str2) ==
    /\ Len(str2) >= Len(str1)
    /\ \A i \in 1..Len(str1) : str2[i] = str1[i]

\* a flag test that does not look for the separator
flag_anywhere(f, str) ==
    \E k \in 1..Len(str) : str[k] = f

\* flag(flag, str): the character occurs at or after the first '_'
flag(f, str) ==
    \E i \in 1..Len(str) :
        /\ str[i] = "_"
        /\ \A j \in 1..(i - 1) : str[j] # "_"
        /\ \E k \in i..Len(str) : str[k] = f

\* The ordered mnemonic list of il_interp_parse
Mnemonics ==
    << <<(<<"L","O","A","D">>), CMD_LOAD>>,
       <<(<<"S","T","O","R">>), CMD_STOR>>,
       <<(<<"S","E","T">>),     CMD_SET>>,
       <<(<<"R","S","T">>),     CMD_RST>>,
       <<(<<"A","N","D">>),     CMD_AND>>,
       <<(<<"O","R">>),         CMD_OR>>,
       <<(<<"X","O","R">>),     CMD_XOR>>,
       <<(<<"A","D","D">>),     CMD_ADD>>,
       <<(<<"S","U","B">>),     CMD_SUB>>,
       <<(<<"M","U","L">>),     CMD_MUL>>,
       <<(<<"D","I","V">>),     CMD_DIV>>,
       <<(<<"G","T">>),         CMD_GT>>,
       <<(<<"G","E">>),         CMD_GE>>,
       <<(<<"E","Q">>),         CMD_EQ>>,
       <<(<<"N","E">>),         CMD_NE>>,
       <<(<<"L","E">>),         CMD_LE>>,
       <<(<<"L","T">>),         CMD_LT>>,
       <<(<<"J","U","M","P">>), CMD_JMP>>,
       <<(<<"C","A","L","L">>), CMD_CAL>>,
       <<(<<"R","E","T">>),     CMD_RET>>,
       <<(<<"}">>),             CMD_PAR>> >>

RECURSIVE FirstMatch(_, _)
\* the if / else-if chain of il_interp_parse from entry i on
FirstMatch(command, i) ==
    IF i > Len(Mnemonics) THEN CMD_NOP
    ELSE IF match(Mnemonics[i][1], command) THEN Mnemonics[i][2]
    ELSE FirstMatch(command, i + 1)

il_interp_parse(command) ==
    FirstMatch(command, 1)
    + (IF flag("I", command) THEN FLG_IMM ELSE 0)
    + (IF flag("N", command) THEN FLG_NEG ELSE 0)
    + (IF flag("C", command) THEN FLG_CND ELSE 0)
    + (IF flag("{", command) THEN FLG_PAR ELSE 0)

----------------------------------------------------------------------------
(* The demo's memory provider *)

\* a decoder that swaps the two word banks
addr_decode_banks_swapped(addr) ==
    LET tcol == addr \div 10000
        trow == addr % 10000
    IN  IF trow = 0 \/ trow > MEM_SIZE
        THEN [ok |-> FALSE, col |-> 0, row |-> 0]
        ELSE IF tcol \in {0, 1}
        THEN [ok |-> TRUE, col |-> tcol, row |-> trow - 1]
        ELSE IF tcol \in {3, 4}
        THEN [ok |-> TRUE, col |-> 6 - tcol, row |-> trow - 1]
        ELSE [ok |-> FALSE, col |-> 0, row |-> 0]

\* a decoder whose banks are one slot short
addr_decode_short_bank(addr) ==
    LET tcol == addr \div 10000
        trow == addr % 10000
    IN  IF trow = 0 \/ trow >= MEM_SIZE
        THEN [ok |-> FALSE, col |-> 0, row |-> 0]
        ELSE IF tcol \in {0, 1}
        THEN [ok |-> TRUE, col |-> tcol, row |-> trow - 1]
        ELSE IF tcol \in {3, 4}
        THEN [ok |-> TRUE, col |-> tcol - 1, row |-> trow - 1]
        ELSE [ok |-> FALSE, col |-> 0, row |-> 0]

\* addr_decode: [ok, col, row]; col 0,1 bit banks, col 2,3 word banks
addr_decode(addr) ==
    LET tcol == addr \div 10000
        trow == addr % 10000
    IN  IF trow = 0 \/ trow > MEM_SIZE
        THEN [ok |-> FALSE, col |-> 0, row |-> 0]
        ELSE IF tcol \in {0, 1}
        THEN [ok |-> TRUE, col |-> tcol, row |-> trow - 1]
        ELSE IF tcol \in {3, 4}
        THEN [ok |-> TRUE, col |-> tcol - 1, row |-> trow - 1]
        ELSE [ok |-> FALSE, col |-> 0, row |-> 0]

\* a set that stores the low bit of the value in a bit cell
mem_set_low_bit(addr, val, invert) ==
    LET d == addr_decode(addr)
    IN  IF ~d.ok THEN UNCHANGED <<bit_memory, word_memory>>
        ELSE IF d.col < 2
        THEN LET v == IF invert THEN BoolVal(val = 0) ELSE val
             IN  /\ bit_memory' = [bit_memory EXCEPT ![d.col][d.row] = (v % 2 = 1)]
                 /\ UNCHANGED word_memory
        ELSE LET v == IF invert THEN Not16(val) ELSE val
             IN  /\ word_memory' = [word_memory EXCEPT ![d.col - 2][d.row] = v]
                 /\ UNCHANGED bit_memory

\* mem_set(addr, val, invert)
mem_set(addr, val, invert) ==
    LET d == addr_decode(addr)
    IN  IF ~d.ok THEN UNCHANGED <<bit_memory, word_memory>>
        ELSE IF d.col < 2
        THEN LET v == IF invert THEN BoolVal(val = 0) ELSE val
             IN  /\ bit_memory' = [bit_memory EXCEPT ![d.col][d.row] = (v # 0)]
                 /\ UNCHANGED word_memory
        ELSE LET v == IF invert THEN Not16(val) ELSE val
             IN  /\ word_memory' = [word_memory EXCEPT ![d.col - 2][d.row] = v]
                 /\ UNCHANGED bit_memory

\* a get that inverts the 0 of an invalid address
mem_get_inverts_default(addr, invert) ==
    LET d == addr_decode(addr)
    IN  IF ~d.ok THEN (IF invert THEN Not16(0) ELSE 0)
        ELSE IF d.col < 2
        THEN LET val == BoolVal(bit_memory[d.col][d.row])
             IN  IF invert THEN BoolVal(val = 0) ELSE val
        ELSE LET val == word_memory[d.col - 2][d.row]
             IN  IF invert THEN Not16(val) ELSE val

\* mem_get(addr, invert)
mem_get(addr, invert) ==
    LET d == addr_decode(addr)
    IN  IF ~d.ok THEN 0
        ELSE IF d.col < 2
        THEN LET val == BoolVal(bit_memory[d.col][d.row])
             IN  IF invert THEN BoolVal(val = 0) ELSE val
        ELSE LET val == word_memory[d.col - 2][d.row]
             IN  IF invert THEN Not16(val) ELSE val

----------------------------------------------------------------------------
(* The two stacks *)

\* undefined behaviour in eval_stack_push: the store lands before the array
\* when eval_stack_top is negative, and eval_stack_top++ overflows the int
PushUndefined(top) == top < 0 \/ top = INT_MAX

\* what the build can make of a push: it traps only where it is undefined
PushTraps(top) == IF PushUndefined(top) THEN {TRUE, FALSE} ELSE {FALSE}

\* eval_stack_push(cmd, accum), when it does not trap: the slot is written
\* only below the maximum depth (a store before the array leaves the array
\* as it is), the top is incremented in any case and wraps at INT_MAX
eval_stack_push(stack, top, cmd, acc) ==
    [stack |-> IF top \in 0..(EVAL_STACK_MAX_DEPTH - 1)
               THEN [stack EXCEPT ![top] = [command |-> cmd, accum |-> acc]]
               ELSE stack,
     top   |-> IF top = INT_MAX THEN INT_MIN ELSE top + 1]

\* undefined behaviour in eval_stack_pop: a negative eval_stack_top passes
\* the test, the read lands before the array, and eval_stack_top-- overflows
\* at INT_MIN
PopUndefined(top) == top < 0

\* what a read before the array can find there
StrayPairs == {[command |-> c, accum |-> a] : c \in {0, CMD_LOAD}, a \in {0, 1}}

\* eval_stack_pop(&cmd, &accum), when it does not trap and with the slot it
\* reads inside the array
eval_stack_pop(stack, top) ==
    IF top = 0 \/ top >= EVAL_STACK_MAX_DEPTH
    THEN [ok |-> FALSE, top |-> top, command |-> 0, accum |-> 0]
    ELSE [ok |-> TRUE, top |-> IF top = INT_MIN THEN INT_MAX ELSE top - 1,
          command |-> IF top > 0 THEN stack[top - 1].command ELSE 0,
          accum |-> IF top > 0 THEN stack[top - 1].accum ELSE 0]

\* the outcomes of a pop that passed the test
PopOutcomes(stack, top) ==
    IF PopUndefined(top)
    THEN {[trap |-> TRUE, command |-> 0, accum |-> 0]}
           \cup {[trap |-> FALSE, command |-> g.command, accum |-> g.accum] :
                    g \in StrayPairs}
    ELSE {[trap |-> FALSE,
           command |-> eval_stack_pop(stack, top).command,
           accum |-> eval_stack_pop(stack, top).accum]}

\* a push that overwrites the top slot of a full stack and reports success
call_stack_push_overwrite(stack, top, addr) ==
    IF top >= CALL_STACK_MAX_DEPTH
    THEN [ok |-> TRUE, stack |-> [stack EXCEPT ![top - 1] = addr], top |-> top]
    ELSE [ok |-> TRUE, stack |-> [stack EXCEPT ![top] = addr], top |-> top + 1]

\* call_stack_push(addr)
call_stack_push(stack, top, addr) ==
    IF top >= CALL_STACK_MAX_DEPTH
    THEN [ok |-> FALSE, stack |-> stack, top |-> top]
    ELSE [ok |-> TRUE, stack |-> [stack EXCEPT ![top] = addr], top |-> top + 1]

\* a pop that hands out the oldest return line instead of the newest
call_stack_pop_oldest(stack, top) ==
    IF top <= 0
    THEN [ok |-> FALSE, top |-> top, retaddr |-> 0]
    ELSE [ok |-> TRUE, top |-> top - 1, retaddr |-> stack[0]]

\* a pop that misses the empty stack and hands out slot 0
call_stack_pop_unguarded(stack, top) ==
    IF top <= 0
    THEN [ok |-> TRUE, top |-> 0, retaddr |-> stack[0]]
    ELSE [ok |-> TRUE, top |-> top - 1, retaddr |-> stack[top - 1]]

\* call_stack_pop(&retaddr)
call_stack_pop(stack, top) ==
    IF top <= 0
    THEN [ok |-> FALSE, top |-> top, retaddr |-> 0]
    ELSE [ok |-> TRUE, top |-> top - 1, retaddr |-> stack[top - 1]]

----------------------------------------------------------------------------
(* il_interp_execute, one action per case of its switch *)

NoCall == [made |-> FALSE, cmd |-> 0, location |-> 0, line |-> 0]

\* the call is recorded with its arguments and its return value
Returns(cmd, location, line, r) ==
    /\ call' = [made |-> TRUE, cmd |-> cmd, location |-> location, line |-> line]
    /\ ret' = r

\* line += 1 on a uint16_t
NextLine(line) == U16(line + 1)

\* a SET/RST test that forgets the Negate flag
SetCondition_no_negate(cmd) == accum # 0

\* the test of CMD_SET and CMD_RST
SetCondition(cmd) ==
    \/ (~HasFlag(cmd, FLG_NEG) /\ accum # 0)
    \/ (HasFlag(cmd, FLG_NEG) /\ accum = 0)

\* a gate that forgets the Negate flag
ConditionFails_no_negate(cmd) ==
    /\ HasFlag(cmd, FLG_CND)
    /\ accum = 0

\* the test of CMD_JMP, CMD_RET and CMD_CAL: a conditional whose condition fails
ConditionFails(cmd) ==
    /\ HasFlag(cmd, FLG_CND)
    /\ \/ (HasFlag(cmd, FLG_NEG) /\ accum # 0)
       \/ (~HasFlag(cmd, FLG_NEG) /\ accum = 0)

\* outcomes of op1 / 0, which the C standard leaves undefined: the division
\* traps or the build yields some 16-bit value
DivZeroOutcomes ==
    {[trap |-> TRUE, value |-> 0]}
      \cup {[trap |-> FALSE, value |-> v] : v \in {0, UINT16_MOD - 1}}


\* op1 * op2 > INT_MAX, decided without forming the product
MulOverflows(op1, op2) == op2 > 0 /\ op1 > INT_MAX \div op2

\* the low 16 bits of op1 * op2, from the two bytes of op1
MulLow16(op1, op2) ==
    U16((((op1 \div 256) * op2) % 256) * 256 + (op1 % 256) * op2)

\* op1 * op2 beyond INT_MAX overflows a signed int, which is undefined: the
\* build may trap or leave the low 16 bits of the product
MulOverflowOutcomes(op1, op2) ==
    {[trap |-> TRUE, value |-> 0], [trap |-> FALSE, value |-> MulLow16(op1, op2)]}

\* the switch of evaluate_operator on two 16-bit operands, op2 # 0 for
\* CMD_DIV and op1 * op2 <= INT_MAX for CMD_MUL
BinaryResult(op, op1, op2) ==
    CASE op = CMD_AND -> Bitwise(CMD_AND, op1, op2, 16)
      [] op = CMD_OR  -> Bitwise(CMD_OR, op1, op2, 16)
      [] op = CMD_XOR -> Bitwise(CMD_XOR, op1, op2, 16)
      [] op = CMD_ADD -> U16(op1 + op2)
      [] op = CMD_SUB -> U16(op1 - op2)
      [] op = CMD_MUL -> U16(op1 * op2)
      [] op = CMD_DIV -> op1 \div op2
      [] op = CMD_GT  -> BoolVal(op1 > op2)
      [] op = CMD_GE  -> BoolVal(op1 >= op2)
      [] op = CMD_EQ  -> BoolVal(op1 = op2)
      [] op = CMD_NE  -> BoolVal(op1 # op2)
      [] op = CMD_LE  -> BoolVal(op1 <= op2)
      [] op = CMD_LT  -> BoolVal(op1 < op2)
      [] OTHER        -> 0

\* accum = evaluate_operator(cmd, op1, op2), with its calls of mem->get/set
evaluate_operator(cmd, op1, op2) ==
    IF Opcode(cmd) = CMD_LOAD
    THEN /\ accum' = mem_get(op2, HasFlag(cmd, FLG_NEG))
         /\ UNCHANGED <<bit_memory, word_memory, fault>>
    ELSE IF Opcode(cmd) = CMD_STOR
    THEN /\ accum' = op1
         /\ mem_set(op2, op1, HasFlag(cmd, FLG_NEG))
         /\ UNCHANGED fault
    ELSE LET b == IF HasFlag(cmd, FLG_NEG) THEN Not16(op2) ELSE op2
         IN  IF Opcode(cmd) = CMD_DIV /\ b = 0
             THEN \E o \in DivZeroOutcomes :
                    /\ fault' = o.trap
                    /\ accum' = IF o.trap THEN accum ELSE o.value
                    /\ UNCHANGED <<bit_memory, word_memory>>
             ELSE IF Opcode(cmd) = CMD_MUL /\ MulOverflows(op1, b)
             THEN \E o \in MulOverflowOutcomes(op1, b) :
                    /\ fault' = o.trap
                    /\ accum' = IF o.trap THEN accum ELSE o.value
                    /\ UNCHANGED <<bit_memory, word_memory>>
             ELSE /\ accum' = BinaryResult(Opcode(cmd), op1, b)
                  /\ UNCHANGED <<bit_memory, word_memory, fault>>

ExecSET(cmd, location, line) ==
    /\ ~fault
    /\ Opcode(cmd) = CMD_SET
    /\ IF SetCondition(cmd)
       THEN mem_set(location, 1, FALSE)
       ELSE UNCHANGED <<bit_memory, word_memory>>
    /\ Returns(cmd, location, line, NextLine(line))
    /\ UNCHANGED <<interp, sites, groups, base>>

ExecRST(cmd, location, line) ==
    /\ ~fault
    /\ Opcode(cmd) = CMD_RST
    /\ IF SetCondition(cmd)
       THEN mem_set(location, 0, FALSE)
       ELSE UNCHANGED <<bit_memory, word_memory>>
    /\ Returns(cmd, location, line, NextLine(line))
    /\ UNCHANGED <<interp, sites, groups, base>>

ExecJMP(cmd, location, line) ==
    /\ ~fault
    /\ Opcode(cmd) = CMD_JMP
    /\ Returns(cmd, location, line,
               IF ConditionFails(cmd) THEN NextLine(line) ELSE location)
    /\ UNCHANGED <<interp, memory, sites, groups, base>>

\* The branch gate as the specification words it: an unconditional branch is
\* always taken, a conditional one when (accum # 0) xor Negate
GateOpen(cmd, a) ==
    \/ ~HasFlag(cmd, FLG_CND)
    \/ IF HasFlag(cmd, FLG_NEG) THEN a = 0 ELSE a # 0

\* the call sites whose return line a RET has not yet consumed
SitesAfterRET(cmd) ==
    IF ~GateOpen(cmd, accum) \/ sites = << >>
    THEN sites
    ELSE SubSeq(sites, 1, Len(sites) - 1)

ExecRET(cmd, location, line) ==
    /\ ~fault
    /\ Opcode(cmd) = CMD_RET
    /\ IF ConditionFails(cmd)
       THEN /\ Returns(cmd, location, line, NextLine(line))
            /\ UNCHANGED call_stack_top
       ELSE LET p == call_stack_pop(call_stack, call_stack_top)
            IN  /\ call_stack_top' = p.top
                /\ Returns(cmd, location, line,
                           IF p.ok THEN p.retaddr ELSE RET_SENTINEL)
    /\ sites' = SitesAfterRET(cmd)
    /\ UNCHANGED groups
    /\ UNCHANGED <<accum, initialised, eval_stack, eval_stack_top, call_stack,
                   fault, memory, base>>

\* the call sites after a CALL: a taken CALL below the maximum depth adds its line
SitesAfterCAL(cmd, line) ==
    IF ~GateOpen(cmd, accum) \/ Len(sites) >= CALL_STACK_MAX_DEPTH
    THEN sites
    ELSE Append(sites, line)

ExecCAL(cmd, location, line) ==
    /\ ~fault
    /\ Opcode(cmd) = CMD_CAL
    /\ IF ConditionFails(cmd)
       THEN /\ Returns(cmd, location, line, NextLine(line))
            /\ UNCHANGED <<call_stack, call_stack_top>>
       ELSE LET p == call_stack_push(call_stack, call_stack_top, NextLine(line))
            IN  /\ call_stack' = p.stack
                /\ call_stack_top' = p.top
                /\ Returns(cmd, location, line,
                           IF p.ok THEN location ELSE NextLine(line))
    /\ sites' = SitesAfterCAL(cmd, line)
    /\ UNCHANGED groups
    /\ UNCHANGED <<accum, initialised, eval_stack, eval_stack_top, fault,
                   memory, base>>

\* the groups after an instruction: one that opens a group on an evaluation
\* stack with a free slot adds its command and the accumulator
GroupsAfterOpen(cmd) ==
    IF HasFlag(cmd, FLG_PAR) /\ Len(groups) < EVAL_STACK_MAX_DEPTH
                            /\ eval_stack_top \in 0..(EVAL_STACK_MAX_DEPTH - 1)
    THEN Append(groups, [command |-> cmd, accum |-> accum])
    ELSE groups

\* the groups after a close-group: a pop that succeeds takes the latest away
GroupsAfterClose ==
    IF groups # << >> /\ eval_stack_pop(eval_stack, eval_stack_top).ok
    THEN SubSeq(groups, 1, Len(groups) - 1)
    ELSE groups

ExecLOADSTOR(cmd, location, line) ==
    /\ ~fault
    /\ Opcode(cmd) \in {CMD_STOR, CMD_LOAD}
    /\ HasFlag(cmd, FLG_PAR) => PushFollowed(eval_stack_top)
    /\ IF HasFlag(cmd, FLG_PAR)
       THEN \E trap \in PushTraps(eval_stack_top) :
              /\ fault' = trap
              /\ IF trap
                 THEN UNCHANGED <<eval_stack, eval_stack_top, accum,
                                  bit_memory, word_memory>>
                 ELSE LET p == eval_stack_push(eval_stack, eval_stack_top,
                                               cmd, accum)
                      IN  /\ eval_stack' = p.stack
                          /\ eval_stack_top' = p.top
                          /\ accum' = location
                          /\ UNCHANGED <<bit_memory, word_memory>>
       ELSE IF Opcode(cmd) = CMD_STOR
       THEN /\ mem_set(location, accum, HasFlag(cmd, FLG_NEG))
            /\ UNCHANGED <<accum, eval_stack, eval_stack_top, fault>>
       ELSE /\ accum' = IF HasFlag(cmd, FLG_IMM) THEN location
                        ELSE mem_get(location, HasFlag(cmd, FLG_NEG))
            /\ UNCHANGED <<bit_memory, word_memory, eval_stack, eval_stack_top,
                           fault>>
    /\ Returns(cmd, location, line, NextLine(line))
    /\ groups' = GroupsAfterOpen(cmd)
    /\ UNCHANGED <<initialised, call_stack, call_stack_top, sites, base>>

ExecBinary(cmd, location, line) ==
    /\ ~fault
    /\ Opcode(cmd) \in CMD_AND..CMD_LT
    /\ HasFlag(cmd, FLG_PAR) => PushFollowed(eval_stack_top)
    /\ LET value == IF HasFlag(cmd, FLG_IMM) THEN location
                    ELSE mem_get(location, FALSE)
       IN  IF HasFlag(cmd, FLG_PAR)
           THEN \E trap \in PushTraps(eval_stack_top) :
                  /\ fault' = trap
                  /\ IF trap
                     THEN UNCHANGED <<eval_stack, eval_stack_top, accum,
                                      bit_memory, word_memory>>
                     ELSE LET p == eval_stack_push(eval_stack, eval_stack_top,
                                                   cmd, accum)
                          IN  /\ eval_stack' = p.stack
                              /\ eval_stack_top' = p.top
                              /\ accum' = value
                              /\ UNCHANGED <<bit_memory, word_memory>>
           ELSE /\ evaluate_operator(cmd, accum, value)
                /\ UNCHANGED <<eval_stack, eval_stack_top>>
    /\ Returns(cmd, location, line, NextLine(line))
    /\ groups' = GroupsAfterOpen(cmd)
    /\ UNCHANGED <<initialised, call_stack, call_stack_top, sites, base>>

ExecPAR(cmd, location, line) ==
    /\ ~fault
    /\ Opcode(cmd) = CMD_PAR
    /\ LET p == eval_stack_pop(eval_stack, eval_stack_top)
       IN  IF p.ok
           THEN \E o \in PopOutcomes(eval_stack, eval_stack_top) :
                  IF o.trap
                  THEN /\ fault' = TRUE
                       /\ UNCHANGED <<eval_stack_top, accum, bit_memory,
                                      word_memory>>
                  ELSE /\ eval_stack_top' = p.top
                       /\ evaluate_operator(o.command, o.accum, accum)
           ELSE UNCHANGED <<eval_stack_top, accum, bit_memory, word_memory, fault>>
    /\ Returns(cmd, location, line, NextLine(line))
    /\ groups' = GroupsAfterClose
    /\ UNCHANGED <<initialised, eval_stack, call_stack, call_stack_top, sites,
                   base>>

\* a no-op that opens a group when it carries the BeginGroup flag
ExecNOP_opens_group(cmd, location, line) ==
    /\ ~fault
    /\ Opcode(cmd) \notin CMD_LOAD..CMD_PAR
    /\ IF HasFlag(cmd, FLG_PAR)
       THEN LET p == eval_stack_push(eval_stack, eval_stack_top, cmd, accum)
            IN  /\ eval_stack' = p.stack
                /\ eval_stack_top' = p.top
       ELSE UNCHANGED <<eval_stack, eval_stack_top>>
    /\ Returns(cmd, location, line, NextLine(line))
    /\ UNCHANGED <<accum, initialised, call_stack, call_stack_top, fault,
                   memory, sites, groups, base>>

ExecNOP(cmd, location, line) ==
    /\ ~fault
    /\ Opcode(cmd) \notin CMD_LOAD..CMD_PAR
    /\ Returns(cmd, location, line, NextLine(line))
    /\ UNCHANGED <<interp, memory, sites, groups, base>>

\* an initialisation that leaves the evaluation stack as it is
il_interp_init_keeps_groups ==
    /\ ~fault
    /\ accum' = 0
    /\ call_stack_top' = 0
    /\ initialised' = TRUE
    /\ sites' = << >>
    /\ groups' = << >>
    /\ call' = NoCall
    /\ UNCHANGED <<eval_stack, eval_stack_top, call_stack, fault, memory, ret,
                   base>>

\* il_interp_init(&mc): the arrays keep their contents
il_interp_init ==
    /\ ~fault
    /\ accum' = 0
    /\ eval_stack_top' = 0
    /\ call_stack_top' = 0
    /\ initialised' = TRUE
    /\ sites' = << >>
    /\ groups' = << >>
    /\ call' = NoCall
    /\ UNCHANGED <<eval_stack, call_stack, fault, memory, ret, base>>

\* il_interp_execute(cmd, location, line): the switch on cmd & CMD_MASK
il_interp_execute(cmd, location, line) ==
    \/ ExecSET(cmd, location, line)
    \/ ExecRST(cmd, location, line)
    \/ ExecJMP(cmd, location, line)
    \/ ExecRET(cmd, location, line)
    \/ ExecCAL(cmd, location, line)
    \/ ExecLOADSTOR(cmd, location, line)
    \/ ExecBinary(cmd, location, line)
    \/ ExecPAR(cmd, location, line)
    \/ ExecNOP(cmd, location, line)

----------------------------------------------------------------------------
(* Initial states *)

\* statics of il_interpreter.c and widgets of gtk_demo.c as the process starts
StartState ==
    /\ accum = 0
    /\ eval_stack = [i \in 0..(EVAL_STACK_MAX_DEPTH - 1) |->
                        [command |-> 0, accum |-> 0]]
    /\ eval_stack_top = 0
    /\ call_stack = [i \in 0..(CALL_STACK_MAX_DEPTH - 1) |-> 0]
    /\ call_stack_top = 0
    /\ bit_memory = [c \in 0..1 |-> [r \in 0..(MEM_SIZE - 1) |-> FALSE]]
    /\ word_memory = [c \in 0..1 |-> [r \in 0..(MEM_SIZE - 1) |-> 0]]
    /\ fault = FALSE
    /\ call = NoCall
    /\ ret = 0
    /\ sites = << >>
    /\ groups = << >>
    /\ current_line = 0
    /\ halt = FALSE
    /\ running = FALSE
    /\ pc = "idle"

\* an empty program: no line has an active command
NoCommand == << >>
EmptyProgram == [l \in 0..(NUM_LINES - 1) |-> [text |-> NoCommand, value |-> 0]]

\* the interpreter right after il_interp_init, called directly
InitAPI ==
    /\ StartState
    /\ initialised = TRUE
    /\ init = TRUE
    /\ program = EmptyProgram

----------------------------------------------------------------------------
(* SpecCall: JUMP, CALL and RET on a call stack filled to its maximum      *)
(* depth.  The CALL of nesting level d is issued from line base + d, so    *)
(* that every stacked return line is distinct.                             *)

TokJUMP    == <<"J","U","M","P">>
TokJUMP_C  == <<"J","U","M","P","_","C">>
TokJUMP_CN == <<"J","U","M","P","_","C","N">>
TokCALL    == <<"C","A","L","L">>
TokCALL_C  == <<"C","A","L","L","_","C">>
TokCALL_CN == <<"C","A","L","L","_","C","N">>
TokRET     == <<"R","E","T">>
TokRET_C   == <<"R","E","T","_","C">>
TokRET_CN  == <<"R","E","T","_","C","N">>
TokLOAD_I  == <<"L","O","A","D","_","I">>

JumpCmds == {il_interp_parse(t) : t \in {TokJUMP, TokJUMP_C, TokJUMP_CN}}
CallCmds == {il_interp_parse(t) : t \in {TokCALL, TokCALL_C, TokCALL_CN}}
RetCmds  == {il_interp_parse(t) : t \in {TokRET, TokRET_C, TokRET_CN}}

Bases == {0, UINT16_MOD - CALL_STACK_MAX_DEPTH}
Targets == {7, UINT16_MOD - 1}
Lines == {0, NUM_LINES - 1, UINT16_MOD - 1}
AccumValues == {0, 1, UINT16_MOD - 1}

CallSite == U16(base + call_stack_top)

InitCall ==
    /\ InitAPI
    /\ base \in Bases

NextCall ==
    \/ \E c \in JumpCmds, t \in Targets, l \in Lines : ExecJMP(c, t, l) /\ UNCHANGED driver
    \/ \E c \in CallCmds, t \in Targets : ExecCAL(c, t, CallSite) /\ UNCHANGED driver
    \/ \E c \in RetCmds, l \in Lines : ExecRET(c, 0, l) /\ UNCHANGED driver
    \/ \E v \in AccumValues :
          ExecLOADSTOR(il_interp_parse(TokLOAD_I), v, 0) /\ UNCHANGED driver
    \/ il_interp_init /\ UNCHANGED driver

SpecCall == InitCall /\ [][NextCall]_vars


----------------------------------------------------------------------------
(* Claims on the call stack and the branch gate, checked under SpecCall *)

\* the step is an il_interp_execute call of opcode op
Executes(op) == call'.made /\ Opcode(call'.cmd) = op

\* the step is a CALL, or a RET, whose gate is open
TakenCAL == Executes(CMD_CAL) /\ GateOpen(call'.cmd, accum)
TakenRET == Executes(CMD_RET) /\ GateOpen(call'.cmd, accum)

C1_Step ==
    /\ (TakenCAL /\ Len(sites) < CALL_STACK_MAX_DEPTH)
         => ret' = call'.location
    /\ (TakenRET /\ sites # << >>)
         => ret' = NextLine(sites[Len(sites)])

\* C1: a taken CALL at line L with operand T on a call stack of fewer than 20
\* entries returns T, and the RET that pops its entry returns L+1 (16-bit);
\* nested calls return in reverse order, up to 20 deep.
C1_CallRetRoundTrip == [][C1_Step]_vars

\* the RET matching the 20th nested CALL has just returned to its call site + 1
C1_Witness ==
    /\ call.made /\ Opcode(call.cmd) = CMD_RET
    /\ Len(sites) = CALL_STACK_MAX_DEPTH - 1
    /\ call_stack_top = CALL_STACK_MAX_DEPTH - 1
    /\ ret = NextLine(U16(base + CALL_STACK_MAX_DEPTH - 1))

C2_Step ==
    (TakenCAL /\ Len(sites) = CALL_STACK_MAX_DEPTH)
      => /\ ret' = NextLine(call'.line)
         /\ UNCHANGED <<call_stack, call_stack_top, accum, bit_memory, word_memory>>
         /\ call_stack_top' = CALL_STACK_MAX_DEPTH
         /\ \A i \in 1..CALL_STACK_MAX_DEPTH :
               call_stack'[i - 1] = NextLine(sites[i])

\* C2: a taken CALL on a call stack that already holds 20 entries returns
\* current_line+1, leaves the depth, the 20 stored return lines, the
\* accumulator and memory unchanged.
C2_CallOverflowFallsThrough == [][C2_Step]_vars

\* a 21st nested CALL has just fallen through
C2_Witness ==
    /\ call.made /\ Opcode(call.cmd) = CMD_CAL
    /\ GateOpen(call.cmd, accum)
    /\ Len(sites) = CALL_STACK_MAX_DEPTH
    /\ ret = NextLine(call.line)
    /\ ret # call.location

C3_Step ==
    (TakenRET /\ sites = << >>)
      => /\ ret' = RET_SENTINEL
         /\ call_stack_top' = 0
         /\ sites' = << >>
         /\ UNCHANGED <<accum, bit_memory, word_memory, call_stack,
                        call_stack_top, eval_stack, eval_stack_top>>

\* C3: a taken RET on an empty call stack returns 65535 for every current
\* line and changes neither accumulator, memory nor the two stacks.
C3_RetUnderflowSentinel == [][C3_Step]_vars

\* a conditional RET whose condition is met has just returned the sentinel
\* from the last program line
C3_Witness ==
    /\ call.made /\ Opcode(call.cmd) = CMD_RET
    /\ HasFlag(call.cmd, FLG_CND)
    /\ call.line = NUM_LINES - 1
    /\ sites = << >>
    /\ ret = RET_SENTINEL

C9_Step ==
    /\ Executes(CMD_JMP)
         => ret' = IF GateOpen(call'.cmd, accum) THEN call'.location
                   ELSE NextLine(call'.line)
    /\ (Executes(CMD_CAL) \/ Executes(CMD_RET)) /\ ~GateOpen(call'.cmd, accum)
         => /\ ret' = NextLine(call'.line)
            /\ UNCHANGED <<call_stack, call_stack_top>>
    /\ TakenCAL
         => \/ call_stack_top' = call_stack_top + 1 /\ ret' = call'.location
            \/ call_stack_top = CALL_STACK_MAX_DEPTH
    /\ TakenRET
         => \/ call_stack_top' = call_stack_top - 1
            \/ call_stack_top = 0 /\ ret' = RET_SENTINEL

\* C9: JUMP returns its operand when unconditional, when JUMP_C finds the
\* accumulator nonzero, or when JUMP_CN finds it 0, and current_line+1
\* otherwise; CALL and RET act under exactly the same gate.
C9_ConditionalGate == [][C9_Step]_vars

\* JUMP_CN has just branched on a zero accumulator
C9_Witness ==
    /\ call.made /\ call.cmd = il_interp_parse(TokJUMP_CN)
    /\ accum = 0
    /\ ret = call.location
    /\ ret # NextLine(call.line)

----------------------------------------------------------------------------
(* SpecEval: nested groups up to and beyond the maximum depth of the       *)
(* evaluation stack.  The group opened at nesting level d is the d-th      *)
(* instruction of a nest LOAD_{ ADD_I{ STOR_{ LOAD_{ ... whose operands    *)
(* are consecutive word addresses; the groups are opened in a row and then *)
(* closed in a row, and il_interp_init starts the next nest.  The nest      *)
(* starts with the base-th instruction of the cycle, so that each of the    *)
(* three kinds of group is opened at each nesting level.                    *)

TokLOAD_G  == <<"L","O","A","D","_","{">>
TokADD_IG  == <<"A","D","D","_","I","{">>
TokSTOR_G  == <<"S","T","O","R","_","{">>
TokPAR     == <<"}">>

GroupTokens == <<TokLOAD_G, TokADD_IG, TokSTOR_G>>

\* first address of word bank A (3xxxx)
WORD_BANK_A == 30000

GroupCmd(d) == il_interp_parse(GroupTokens[((base + d) % Len(GroupTokens)) + 1])
GroupValue(d) == WORD_BANK_A + 1 + (d % MEM_SIZE)

InitEval ==
    /\ InitAPI
    /\ base \in 0..(Len(GroupTokens) - 1)

\* the latest instruction was a close-group
Closing == call.made /\ Opcode(call.cmd) = CMD_PAR

NextEval ==
    \/ \E l \in Lines :
          /\ ~Closing
          /\ ExecLOADSTOR(GroupCmd(eval_stack_top), GroupValue(eval_stack_top), l)
          /\ UNCHANGED driver
    \/ \E l \in Lines :
          /\ ~Closing
          /\ ExecBinary(GroupCmd(eval_stack_top), GroupValue(eval_stack_top), l)
          /\ UNCHANGED driver
    \/ \E l \in Lines : ExecPAR(il_interp_parse(TokPAR), 0, l) /\ UNCHANGED driver
    \/ il_interp_init /\ UNCHANGED driver

SpecEval == InitEval /\ [][NextEval]_vars

----------------------------------------------------------------------------
(* Claims on the evaluation stack, checked under SpecEval *)

\* the step executes a BeginGroup-flagged LOAD, STOR or binary operator
OpensGroup ==
    /\ call'.made
    /\ HasFlag(call'.cmd, FLG_PAR)
    /\ Opcode(call'.cmd) \in CMD_LOAD..CMD_LT \ {CMD_SET, CMD_RST}

C4_Step ==
    /\ eval_stack_top' \in 0..EVAL_STACK_MAX_DEPTH
    /\ (OpensGroup /\ eval_stack_top = EVAL_STACK_MAX_DEPTH)
         => eval_stack_top' = eval_stack_top

\* C4: the depth counter of the evaluation stack stays within 0..20, and a
\* BeginGroup-flagged instruction on a stack of 20 entries leaves it unchanged.
C4_EvalDepthInvariant == [][C4_Step]_vars

C5_Step ==
    (Executes(CMD_PAR) /\ eval_stack_top \in 1..EVAL_STACK_MAX_DEPTH)
      => eval_stack_top' = eval_stack_top - 1

\* C5: the evaluation stack is usable up to depth 20: a close-group pops one
\* entry whenever the stack holds 1..20 entries, so 20 close-groups after 20
\* opened groups leave it empty; it is ignored only on an empty stack.
C5_CloseGroupPopsUpToMaxDepth == [][C5_Step]_vars

RECURSIVE TopAfterCloses(_, _)
\* eval_stack_top after n close-group instructions executed in a row
TopAfterCloses(top, n) ==
    IF n = 0 THEN top
    ELSE TopAfterCloses(eval_stack_pop(eval_stack, top).top, n - 1)

\* C6: from every reachable state some finite sequence of close-group
\* instructions, without il_interp_init, empties the evaluation stack.
C6_EvalStackDrains ==
    \E n \in 0..MaxEvalTop : TopAfterCloses(eval_stack_top, n) = 0

----------------------------------------------------------------------------
(* Spec: single instructions on the accumulator and the demo's memory:     *)
(* LOAD, STOR, SET, RST, DIV, DIV_{ groups up to MaxNest deep, NOP and     *)
(* il_interp_init, with operands that are bit, word and invalid addresses. *)

\* groups are opened only below this nesting depth
MaxNest == 1

TokNOP     == <<"_">>
TokLOAD    == <<"L","O","A","D">>
TokSTOR    == <<"S","T","O","R">>
TokSET     == <<"S","E","T">>
TokSET_N   == <<"S","E","T","_","N">>
TokRST     == <<"R","S","T">>
TokRST_N   == <<"R","S","T","_","N">>
TokDIV     == <<"D","I","V">>
TokDIV_I   == <<"D","I","V","_","I">>
TokDIV_N   == <<"D","I","V","_","N">>
TokDIV_IN  == <<"D","I","V","_","I","N">>
TokDIV_G   == <<"D","I","V","_","{">>

SetCmds  == {il_interp_parse(t) : t \in {TokSET, TokSET_N}}
RstCmds  == {il_interp_parse(t) : t \in {TokRST, TokRST_N}}
LoadStorCmds == {il_interp_parse(t) : t \in {TokLOAD_I, TokLOAD, TokSTOR}}
DivCmds  == {il_interp_parse(t) : t \in {TokDIV, TokDIV_I, TokDIV_N, TokDIV_IN}}
GroupCmds == {il_interp_parse(t) : t \in {TokDIV_G}}

\* first address of word bank B (4xxxx)
WORD_BANK_B == 40000

\* invalid (slot 0), bit bank A slot 1, word bank B slot 1, invalid (region 6)
Operands == {0, 1, WORD_BANK_B + 1, UINT16_MOD - 1}

\* operands of DIV: as addresses an invalid one and a bit, as immediates 0, 1
\* and 0xFFFF, the value a negated DIV turns into 0
DivOperands == {0, 1, UINT16_MOD - 1}

InitSpec ==
    /\ InitAPI
    /\ base = 0

Next ==
    \/ \E c \in SetCmds, v \in Operands : ExecSET(c, v, 0) /\ UNCHANGED driver
    \/ \E c \in RstCmds, v \in Operands : ExecRST(c, v, 0) /\ UNCHANGED driver
    \/ \E c \in LoadStorCmds, v \in Operands :
          ExecLOADSTOR(c, v, 0) /\ UNCHANGED driver
    \/ \E c \in DivCmds, v \in DivOperands :
          ExecBinary(c, v, 0) /\ UNCHANGED driver
    \/ \E c \in GroupCmds, v \in Operands :
          /\ eval_stack_top < MaxNest
          /\ ExecBinary(c, v, 0)
          /\ UNCHANGED driver
    \/ ExecPAR(il_interp_parse(TokPAR), 0, 0) /\ UNCHANGED driver
    \/ ExecNOP(il_interp_parse(TokNOP), 0, 0) /\ UNCHANGED driver
    \/ il_interp_init /\ UNCHANGED driver

Spec == InitSpec /\ [][Next]_vars

----------------------------------------------------------------------------
(* Claims on DIV, SET and RST, checked under Spec *)

\* the step divides by an effective divisor of 0: a DIV executed at once on
\* an operand value (negated: its complement) of 0, or a close-group that
\* applies a deferred DIV to an accumulator (negated: its complement) of 0
DividesByZero ==
    \/ /\ Executes(CMD_DIV)
       /\ ~HasFlag(call'.cmd, FLG_PAR)
       /\ LET value == IF HasFlag(call'.cmd, FLG_IMM) THEN call'.location
                       ELSE mem_get(call'.location, FALSE)
          IN  (IF HasFlag(call'.cmd, FLG_NEG) THEN Not16(value) ELSE value) = 0
    \/ /\ Executes(CMD_PAR)
       /\ eval_stack_top \in 1..(EVAL_STACK_MAX_DEPTH - 1)
       /\ LET s_cmd == eval_stack[eval_stack_top - 1].command
          IN  /\ Opcode(s_cmd) = CMD_DIV
              /\ (IF HasFlag(s_cmd, FLG_NEG) THEN Not16(accum) ELSE accum) = 0

C7_Step ==
    DividesByZero
      => /\ ~fault'
         /\ accum' \in 0..(UINT16_MOD - 1)
         /\ ret' = NextLine(call'.line)

\* C7: a DIV whose effective divisor is 0 produces a 16-bit accumulator
\* value, returns current_line+1 and never leaves the interpreter in a fault
\* state that stops the driver loop.
C7_DivideByZeroDefined == [][C7_Step]_vars

\* first bit address of bit bank b (0xxxx, 1xxxx), slot s in 1..MEM_SIZE
BitAddress(b, s) == b * 10000 + s

\* no cell of either bank kind changes
MemoryUnchanged == UNCHANGED <<bit_memory, word_memory>>

\* exactly the bit of bank b, slot s is written with v
OnlyBitWritten(b, s, v) ==
    /\ bit_memory'[b][s - 1] = v
    /\ \A c \in 0..1, r \in 0..(MEM_SIZE - 1) :
          (c # b \/ r # s - 1) => bit_memory'[c][r] = bit_memory[c][r]
    /\ UNCHANGED word_memory

C10_Step ==
    (Executes(CMD_SET) \/ Executes(CMD_RST))
      => /\ ret' = NextLine(call'.line)
         /\ UNCHANGED <<accum, eval_stack, eval_stack_top, call_stack,
                        call_stack_top>>
         /\ ((accum # 0) = HasFlag(call'.cmd, FLG_NEG)) => MemoryUnchanged
         /\ \A b \in 0..1, s \in 1..MEM_SIZE :
               (/\ call'.location = BitAddress(b, s)
                /\ (accum # 0) # HasFlag(call'.cmd, FLG_NEG))
                 => OnlyBitWritten(b, s, Opcode(call'.cmd) = CMD_SET)

\* C10: SET writes 1, RST writes 0, to the bit at the operand address exactly
\* when (accum # 0) xor Negate; otherwise no memory cell changes; accumulator
\* and both stacks are unchanged and the next line is current_line+1.
C10_SetRstGate == [][C10_Step]_vars

\* SET at address 00001 with a nonzero accumulator has just set bit bank A slot 1
C10_Witness ==
    /\ call.made /\ call.cmd = il_interp_parse(TokSET)
    /\ call.location = BitAddress(0, 1)
    /\ accum # 0
    /\ bit_memory[0][0]
    /\ ret = NextLine(call.line)

----------------------------------------------------------------------------
(* The demo driver: execution control of gtk_demo.c.  The GTK main loop    *)
(* runs one callback at a time; run_to_end dispatches pending events after *)
(* every executed line, so a state with running = TRUE is the dispatch     *)
(* point inside its loop.                                                  *)

\* an execute_line that passes over the line after an empty one
execute_line_skips(line_no) ==
    IF program[line_no].text # NoCommand
    THEN /\ il_interp_execute(il_interp_parse(program[line_no].text),
                              program[line_no].value, line_no)
         /\ current_line' = ret'
    ELSE /\ ~fault
         /\ current_line' = line_no + 2
         /\ call' = NoCall
         /\ UNCHANGED <<interp, memory, ret, sites, groups, base>>

\* execute_line(line_no)
execute_line(line_no) ==
    IF program[line_no].text # NoCommand
    THEN /\ il_interp_execute(il_interp_parse(program[line_no].text),
                              program[line_no].value, line_no)
         /\ current_line' = ret'
    ELSE /\ ~fault
         /\ current_line' = line_no + 1
         /\ call' = NoCall
         /\ UNCHANGED <<interp, memory, ret, sites, groups, base>>

\* a prog_step() without the test of the line: past the last line it
\* executes whatever lies behind the program array, here a NOP
prog_step_unbounded ==
    /\ ~running /\ init
    /\ IF current_line < NUM_LINES
       THEN execute_line(current_line)
       ELSE /\ il_interp_execute(CMD_NOP, 0, current_line)
            /\ current_line' = ret'
    /\ UNCHANGED <<program, init, halt, running, pc>>

\* prog_step(): ignored while running, before init, or past the last line
prog_step ==
    /\ ~running /\ init /\ current_line < NUM_LINES
    /\ execute_line(current_line)
    /\ UNCHANGED <<program, init, halt, running, pc>>

\* a prog_init() without the test of running
prog_init_while_running ==
    /\ ~fault
    /\ current_line' = 0
    /\ IF ~init
       THEN /\ il_interp_init
            /\ init' = TRUE
       ELSE /\ call' = NoCall
            /\ UNCHANGED <<interp, memory, ret, sites, groups, base, init>>
    /\ UNCHANGED <<program, halt, running, pc>>

\* a prog_init() that initialises the interpreter on every request
prog_init_reinitialises ==
    /\ ~fault
    /\ ~running
    /\ current_line' = 0
    /\ il_interp_init
    /\ init' = TRUE
    /\ UNCHANGED <<program, halt, running, pc>>

\* prog_init(): ignored while running
prog_init ==
    /\ ~fault
    /\ ~running
    /\ current_line' = 0
    /\ IF ~init
       THEN /\ il_interp_init
            /\ init' = TRUE
       ELSE /\ call' = NoCall
            /\ UNCHANGED <<interp, memory, ret, sites, groups, base, init>>
    /\ UNCHANGED <<program, halt, running, pc>>

\* prog_halt()
prog_halt ==
    /\ ~fault
    /\ halt' = TRUE
    /\ call' = NoCall
    /\ UNCHANGED <<interp, memory, ret, sites, groups, base, program, current_line,
                   init, running, pc>>

\* prog_run(): halt = false, then run_to_end up to its first event dispatch,
\* or through to its end when no line is left to execute
prog_run ==
    /\ init /\ ~running
    /\ halt' = FALSE
    /\ IF current_line < NUM_LINES
       THEN /\ execute_line(current_line)
            /\ running' = TRUE
       ELSE /\ ~fault
            /\ current_line' = 0
            /\ running' = FALSE
            /\ call' = NoCall
            /\ UNCHANGED <<interp, memory, ret, sites, groups, base>>
    /\ UNCHANGED <<program, init, pc>>

\* a loop that does not look at the halt flag
run_to_end_line_ignores_halt ==
    /\ running
    /\ current_line < NUM_LINES
    /\ execute_line(current_line)
    /\ UNCHANGED <<program, init, halt, running, pc>>

\* run_to_end(): one more pass of the while loop
run_to_end_line ==
    /\ running
    /\ current_line < NUM_LINES /\ ~halt
    /\ execute_line(current_line)
    /\ UNCHANGED <<program, init, halt, running, pc>>

\* an exit that initialises the interpreter for the next scan
run_to_end_exit_reinitialises ==
    /\ running
    /\ ~(current_line < NUM_LINES /\ ~halt)
    /\ current_line' = IF ~halt \/ pc = "finish" THEN 0 ELSE current_line
    /\ running' = FALSE
    /\ pc' = IF pc = "finish" \/ (pc = "cycle" /\ ~halt) THEN "sleep" ELSE "idle"
    /\ il_interp_init
    /\ UNCHANGED <<program, init, halt>>

\* an exit that always resets the current line
run_to_end_exit_resets_line ==
    /\ ~fault
    /\ running
    /\ ~(current_line < NUM_LINES /\ ~halt)
    /\ current_line' = 0
    /\ running' = FALSE
    /\ pc' = IF pc = "finish" \/ (pc = "cycle" /\ ~halt) THEN "sleep" ELSE "idle"
    /\ call' = NoCall
    /\ UNCHANGED <<interp, memory, ret, sites, groups, base, program, init, halt>>

\* run_to_end(): the loop condition fails, and the caller goes on up to the
\* point where it waits: prog_run() returns to the main loop; in
\* execute_program() the first run is followed by prog_init() and the
\* Sleep of the first cycle, a cycle by the test of halt and the next Sleep
run_to_end_exit ==
    /\ ~fault
    /\ running
    /\ ~(current_line < NUM_LINES /\ ~halt)
    /\ current_line' = IF ~halt \/ pc = "finish" THEN 0 ELSE current_line
    /\ running' = FALSE
    /\ pc' = IF pc = "finish" \/ (pc = "cycle" /\ ~halt) THEN "sleep" ELSE "idle"
    /\ call' = NoCall
    /\ UNCHANGED <<interp, memory, ret, sites, groups, base, program, init, halt>>

\* execute_program(): ignored while running; prog_run() up to the first
\* event dispatch of its run_to_end(), or, when nothing is left to run,
\* prog_init() and on to the Sleep of the first cycle
execute_program ==
    /\ ~running /\ pc = "idle"
    /\ IF init /\ current_line < NUM_LINES
       THEN /\ halt' = FALSE
            /\ execute_line(current_line)
            /\ running' = TRUE
            /\ pc' = "finish"
            /\ UNCHANGED init
       ELSE /\ halt' = IF init THEN FALSE ELSE halt
            /\ current_line' = 0
            /\ IF ~init
               THEN /\ il_interp_init
                    /\ init' = TRUE
               ELSE /\ ~fault
                    /\ call' = NoCall
                    /\ UNCHANGED <<interp, memory, ret, sites, groups, base, init>>
            /\ pc' = "sleep"
            /\ UNCHANGED running
    /\ UNCHANGED program

\* execute_program(): after the Sleep, one cycle of the do-while loop up to
\* the first event dispatch of its run_to_end(), or the end of the loop
execute_program_cycle ==
    /\ pc = "sleep"
    /\ IF ~halt
       THEN IF current_line < NUM_LINES
            THEN /\ execute_line(current_line)
                 /\ running' = TRUE
                 /\ pc' = "cycle"
            ELSE /\ ~fault
                 /\ current_line' = 0
                 /\ call' = NoCall
                 /\ UNCHANGED <<interp, memory, ret, sites, groups, base, running, pc>>
       ELSE /\ ~fault
            /\ pc' = "idle"
            /\ call' = NoCall
            /\ UNCHANGED <<interp, memory, ret, sites, groups, base, current_line,
                           running>>
    /\ UNCHANGED <<program, init, halt>>

----------------------------------------------------------------------------
(* SpecProg: the driver on a program drawn from a small set of programs *)

TokADD_I   == <<"A","D","D","_","I">>
TokADD_G   == <<"A","D","D","_","{">>

\* the lines of a program text, the remaining lines left without a command
ProgramOf(text) ==
    [l \in 0..(NUM_LINES - 1) |->
        IF l + 1 <= Len(text) THEN [text |-> text[l + 1][1], value |-> text[l + 1][2]]
        ELSE [text |-> NoCommand, value |-> 0]]

\* the scenario [("LOAD_I",5), ("ADD_I",3), ("STOR",40001)]
ScenarioText == << <<TokLOAD_I, 5>>, <<TokADD_I, 3>>, <<TokSTOR, WORD_BANK_B + 1>> >>

\* a subroutine with a group, called once, and a conditional jump to the
\* last line
SubroutineText ==
    << <<TokLOAD_I, 1>>, <<TokSET, 1>>, <<TokCALL, 6>>, <<TokRST, 1>>,
       <<TokJUMP_C, NUM_LINES - 1>>, <<TokNOP, 0>>, <<TokADD_G, 1>>,
       <<TokPAR, 0>>, <<TokRET, 0>> >>

\* a program that never ends: the JUMP of line 1 jumps to line 1
LoopText == << <<TokNOP, 0>>, <<TokJUMP, 1>> >>

\* a program with a command on every line and no JUMP, CALL or RET
StraightText ==
    [l \in 1..NUM_LINES |->
        IF l = 1 THEN <<TokLOAD_I, 5>>
        ELSE IF l = NUM_LINES THEN <<TokSTOR, WORD_BANK_B + 1>>
        ELSE IF l = 3 THEN <<TokPAR, 0>>
        ELSE IF l % 2 = 0 THEN <<TokADD_I, 3>>
        ELSE <<TokNOP, 0>>]

\* a CALL of a line past the program: every scan leaves one more return
\* line on the call stack, and once the stack is full the CALL moves on to
\* the RET of line 1, which pops the entries down to the sentinel
OutOfRangeText == << <<TokCALL, NUM_LINES>>, <<TokRET, 0>> >>

\* a JUMP far past the program
JumpOutText == << <<TokLOAD_I, 1>>, <<TokJUMP, WORD_BANK_B>> >>

Programs ==
    {ProgramOf(ScenarioText), ProgramOf(SubroutineText), ProgramOf(LoopText),
     ProgramOf(StraightText), ProgramOf(OutOfRangeText), ProgramOf(JumpOutText)}

InitProg ==
    /\ StartState
    /\ initialised = FALSE
    /\ init = FALSE
    /\ program \in Programs
    /\ base = 0

\* the main loop dispatches button events while the program waits in it or
\* in gtk_main_iteration(), never during the Sleep of execute_program()
Dispatching == pc # "sleep"

NextProg ==
    \/ Dispatching /\ prog_init
    \/ Dispatching /\ prog_step
    \/ Dispatching /\ prog_run
    \/ Dispatching /\ prog_halt
    \/ Dispatching /\ execute_program
    \/ execute_program_cycle
    \/ run_to_end_line
    \/ run_to_end_exit

SpecProg == InitProg /\ [][NextProg]_vars

\* the loops of run_to_end() and execute_program() are running code: they
\* go on to their next step, while the button callbacks happen or not
FairSpecProg ==
    /\ SpecProg
    /\ WF_vars(run_to_end_line)
    /\ WF_vars(run_to_end_exit)
    /\ WF_vars(execute_program_cycle)

----------------------------------------------------------------------------
(* Claim on the scenario program, checked under SpecProg *)

\* the scenario program has executed its three lines in this pass
ScenarioRan ==
    /\ program = ProgramOf(ScenarioText)
    /\ current_line \in Len(ScenarioText)..NUM_LINES

\* C8 as stated: the scenario ends with accumulator 8 and with word bank A
\* (3xxxx) slot 1 holding 8.
C8_ScenarioStoresInBankA ==
    ScenarioRan => accum = 8 /\ word_memory[0][0] = 8

\* C8, amended: the scenario ends with accumulator 8 and with word bank B
\* (4xxxx) slot 1 holding 8; no other memory cell is written.
C8_ScenarioStoresInBankB ==
    ScenarioRan
      => /\ accum = 8
         /\ word_memory[1][0] = 8
         /\ \A r \in 0..(MEM_SIZE - 1) : word_memory[0][r] = 0
         /\ \A r \in 1..(MEM_SIZE - 1) : word_memory[1][r] = 0
         /\ \A c \in 0..1, r \in 0..(MEM_SIZE - 1) : ~bit_memory[c][r]

\* the scenario was run through parse and execute to the end of the program
C8_Witness ==
    /\ program = ProgramOf(ScenarioText)
    /\ init /\ initialised
    /\ current_line = NUM_LINES
    /\ accum = 8
    /\ word_memory[1][0] = 8

----------------------------------------------------------------------------
(* SpecDecode: the driver stepping the program  LOAD_I v; STOR a; JUMP 31   *)
(* for every 16-bit address a, on the memory the demo starts with.          *)

\* LOAD_I v; STOR a; JUMP NUM_LINES
StoreText(v, a) ==
    << <<TokLOAD_I, v>>, <<TokSTOR, a>>, <<TokJUMP, NUM_LINES>> >>

Addresses == 0..(UINT16_MOD - 1)

InitDecode ==
    /\ StartState
    /\ initialised = FALSE
    /\ init = FALSE
    /\ base = 0
    /\ program \in {ProgramOf(StoreText(UINT16_MOD - 1, a)) : a \in Addresses}

NextDecode ==
    \/ prog_init
    \/ prog_step

SpecDecode == InitDecode /\ [][NextDecode]_vars

----------------------------------------------------------------------------
(* Claim on address decoding, checked under SpecDecode *)

\* the address the program stores to
StoreAddress == program[1].value

\* the STOR of the program has been executed
Stored == call.made /\ Opcode(call.cmd) = CMD_STOR

\* validity, region and index of an address as the address scheme states
\* them; regions 0, 1, 2, 3 are bit bank A, bit bank B, word bank A, word
\* bank B
SchemeValid(a) ==
    /\ (a % 10000) \in 1..26
    /\ (a \div 10000) \in {0, 1, 3, 4}
SchemeRegion(a) ==
    CASE a \div 10000 = 0 -> 0
      [] a \div 10000 = 1 -> 1
      [] a \div 10000 = 3 -> 2
      [] a \div 10000 = 4 -> 3
SchemeIndex(a) == (a % 10000) - 1

\* the one address of a (region, index) pair
SchemeAddress(region, index) ==
    (IF region < 2 THEN region ELSE region + 1) * 10000 + index + 1

\* memory as the demo starts, with the cell (region, index) holding v
StartMemoryWith(region, index, v) ==
    /\ bit_memory = [c \in 0..1 |-> [r \in 0..(MEM_SIZE - 1) |->
                        region = c /\ index = r /\ v # 0]]
    /\ word_memory = [c \in 0..1 |-> [r \in 0..(MEM_SIZE - 1) |->
                        IF region = c + 2 /\ index = r THEN v ELSE 0]]

\* C11: over all 16-bit addresses a, decoding succeeds iff 1 <= a mod 10000
\* <= 26 and a div 10000 is 0, 1, 3 or 4; on success the index is
\* (a mod 10000) - 1 and the region is bit bank A, bit bank B, word bank A,
\* word bank B for quotient 0, 1, 3, 4; the pair decodes back to a alone, so
\* distinct valid addresses have distinct pairs; every other address fails,
\* and a STOR to it writes no cell while a STOR to a valid one writes
\* exactly the cell of its pair.
C11_AddressDecoding ==
    LET a == StoreAddress
        d == addr_decode(a)
    IN  /\ d.ok <=> SchemeValid(a)
        /\ d.ok => /\ d.row = SchemeIndex(a)
                   /\ d.col = SchemeRegion(a)
                   /\ SchemeAddress(d.col, d.row) = a
        /\ Stored =>
             IF SchemeValid(a)
             THEN StartMemoryWith(SchemeRegion(a), SchemeIndex(a), accum)
             ELSE StartMemoryWith(0, 0, 0)

\* the STOR to the last slot of word bank B has written that slot
C11_Witness ==
    /\ Stored
    /\ StoreAddress = WORD_BANK_B + MEM_SIZE
    /\ word_memory[1][MEM_SIZE - 1] = UINT16_MOD - 1
    /\ addr_decode(StoreAddress) = [ok |-> TRUE, col |-> 3, row |-> MEM_SIZE - 1]

----------------------------------------------------------------------------
(* SpecMem: LOAD, STOR, SET and RST, plain and with Negate, on bit cells,   *)
(* word cells and invalid addresses, with values that tell a boolean from   *)
(* its low bit and a bitwise from a logical complement.                     *)

TokLOAD_N  == <<"L","O","A","D","_","N">>
TokSTOR_N  == <<"S","T","O","R","_","N">>

MemCmds ==
    {il_interp_parse(t) : t \in {TokLOAD, TokLOAD_N, TokSTOR, TokSTOR_N}}

\* the first slot of bit bank A and of word bank A, the last slot of bit
\* bank B and of word bank B
ValidOperands ==
    {1, 10000 + MEM_SIZE, WORD_BANK_A + 1, WORD_BANK_B + MEM_SIZE}

\* slot 0, a slot past the bank, region digits 2, 5 and 6
InvalidOperands ==
    {0, MEM_SIZE + 1, WORD_BANK_A - 10000 + 1, WORD_BANK_B + 10000 + 1,
     UINT16_MOD - 1}

MemOperands == ValidOperands \cup InvalidOperands
MemValues == {0, 2, UINT16_MOD - 1}
MemLines == {NUM_LINES - 1}

InitMem ==
    /\ InitAPI
    /\ base = 0

NextMem ==
    \/ \E v \in MemValues, l \in MemLines :
          ExecLOADSTOR(il_interp_parse(TokLOAD_I), v, l) /\ UNCHANGED driver
    \/ \E c \in MemCmds, a \in MemOperands, l \in MemLines :
          ExecLOADSTOR(c, a, l) /\ UNCHANGED driver
    \/ \E c \in SetCmds, a \in MemOperands, l \in MemLines :
          ExecSET(c, a, l) /\ UNCHANGED driver
    \/ \E c \in RstCmds, a \in MemOperands, l \in MemLines :
          ExecRST(c, a, l) /\ UNCHANGED driver
    \/ il_interp_init /\ UNCHANGED driver

SpecMem == InitMem /\ [][NextMem]_vars

----------------------------------------------------------------------------
(* Claims on the memory provider, checked under SpecMem *)

\* every cell but the one of address a keeps its content
OtherCellsUnchanged(a) ==
    /\ \A c \in 0..1, r \in 0..(MEM_SIZE - 1) :
          (c # SchemeRegion(a) \/ r # SchemeIndex(a)) =>
              bit_memory'[c][r] = bit_memory[c][r]
    /\ \A c \in 0..1, r \in 0..(MEM_SIZE - 1) :
          (c + 2 # SchemeRegion(a) \/ r # SchemeIndex(a)) =>
              word_memory'[c][r] = word_memory[c][r]

\* a plain STOR calls set(location, accum, invert = false)
C12_Step ==
    (call'.made /\ call'.cmd = CMD_STOR /\ SchemeValid(call'.location)) =>
        LET a == call'.location
            v == accum
        IN  /\ mem_get(call.location, FALSE)' =
                 IF SchemeRegion(a) < 2 THEN BoolVal(v # 0) ELSE v
            /\ mem_get(call.location, TRUE)' =
                 IF SchemeRegion(a) < 2 THEN BoolVal(v = 0)
                 ELSE (UINT16_MOD - 1) - v
            /\ OtherCellsUnchanged(a)

\* C12: for every valid address a and 16-bit value v, after set(a, v, invert
\* = false), get(a, false) returns v for a word region and 1 if v # 0 else 0
\* for a bit region, get(a, true) returns the 16-bit bitwise complement of v
\* for a word region and the logical complement for a bit region, and no
\* cell other than the one at a has changed.
C12_SetGetRoundTrip == [][C12_Step]_vars

\* 2 has been stored to a bit cell that was clear, next to word cells that
\* hold values
C12_Witness ==
    /\ call.made /\ call.cmd = CMD_STOR /\ call.location = 10000 + MEM_SIZE
    /\ accum = 2
    /\ bit_memory[1][MEM_SIZE - 1]
    /\ ~bit_memory[0][0]
    /\ word_memory[0][0] = 2
    /\ word_memory[1][MEM_SIZE - 1] = UINT16_MOD - 3

\* a LOAD, STOR, SET or RST, plain or with Negate, whose operand is an
\* address that fails decoding
AddressesInvalidCell ==
    /\ call'.made
    /\ Opcode(call'.cmd) \in {CMD_LOAD, CMD_STOR, CMD_SET, CMD_RST}
    /\ ~HasFlag(call'.cmd, FLG_IMM) /\ ~HasFlag(call'.cmd, FLG_PAR)
    /\ ~SchemeValid(call'.location)

C13_Step ==
    AddressesInvalidCell =>
        /\ \A inv \in BOOLEAN :
              /\ mem_get(call'.location, inv) = 0
              /\ mem_get(call.location, inv)' = 0
        /\ Opcode(call'.cmd) = CMD_LOAD => accum' = 0
        /\ Opcode(call'.cmd) # CMD_LOAD => accum' = accum
        /\ MemoryUnchanged
        /\ ret' = NextLine(call'.line)

\* C13: for every address that fails decoding, get returns 0 whatever the
\* invert flag and set changes no memory cell: LOAD or LOAD_N of it sets the
\* accumulator to 0, STOR, SET and RST to it leave all memory unchanged, and
\* execute still returns the current line + 1.
C13_InvalidAddressSafe == [][C13_Step]_vars

\* LOAD_N of region digit 6 has read 0 while cells of both kinds hold values
C13_Witness ==
    /\ call.made /\ call.cmd = il_interp_parse(TokLOAD_N)
    /\ call.location = UINT16_MOD - 1
    /\ accum = 0
    /\ ret = NUM_LINES
    /\ bit_memory[0][0]
    /\ word_memory[0][0] = UINT16_MOD - 1

----------------------------------------------------------------------------
(* Claims on deferred evaluation, checked under SpecEval.  A group is       *)
(* followed from the instruction that opens it on a stack that is not full  *)
(* to a close-group that comes right after it, which is its matching one.   *)

\* the latest instruction opened a group of opcode op on a stack that was
\* not full, and a close-group is executed next
ClosesGroupOf(op) ==
    /\ call.made
    /\ Opcode(call.cmd) = op
    /\ HasFlag(call.cmd, FLG_PAR)
    /\ eval_stack_top - 1 < EVAL_STACK_MAX_DEPTH
    /\ Executes(CMD_PAR)

\* the accumulator the instruction of nesting level d is executed with: 0
\* after il_interp_init, else the operand of the instruction one level up
AccumAtLevel(d) == IF d = 0 THEN 0 ELSE GroupValue(d - 1)

C14_Step ==
    ClosesGroupOf(CMD_LOAD) =>
        /\ accum = call.location
        /\ accum' = mem_get(call.location, HasFlag(call.cmd, FLG_NEG))
        /\ MemoryUnchanged

\* C14: from any state whose evaluation stack is not full, LOAD_{ (with or
\* without Negate), then instructions that leave an address A in the
\* accumulator, then the close-group, leave the accumulator equal to what a
\* direct LOAD A with the same Negate flag reads from the same memory.
C14_GroupedLoadRoundTrip == [][C14_Step]_vars

\* a binary operator that opens a group on a stack that is not full
OpensBinaryGroup ==
    /\ OpensGroup
    /\ Opcode(call'.cmd) \in CMD_AND..CMD_LT
    /\ eval_stack_top < EVAL_STACK_MAX_DEPTH

\* apply(op, s, r, negate) of the instruction set, for the operators without
\* an undefined case
Apply(op, s, r, negate) ==
    BinaryResult(op, s, IF negate THEN (UINT16_MOD - 1) - r ELSE r)

C19_Step ==
    /\ OpensBinaryGroup =>
          /\ accum' = IF HasFlag(call'.cmd, FLG_IMM) THEN call'.location
                      ELSE mem_get(call'.location, FALSE)
          /\ MemoryUnchanged
    /\ (\E op \in (CMD_AND..CMD_LT) \ {CMD_DIV} : ClosesGroupOf(op)) =>
          /\ accum' = Apply(Opcode(call.cmd), AccumAtLevel(eval_stack_top - 1),
                            accum, HasFlag(call.cmd, FLG_NEG))
          /\ MemoryUnchanged

\* C19: a BeginGroup-flagged binary operator executed with accumulator s on
\* an evaluation stack that is not full sets the accumulator to its value
\* (the operand if Immediate, else the un-inverted memory read) and defers
\* the operation; its matching close-group, executed with accumulator r,
\* sets the accumulator to apply(op, s, r, saved Negate).
C19_GroupedBinaryOperator == [][C19_Step]_vars

C20_Step ==
    /\ (OpensGroup /\ Opcode(call'.cmd) = CMD_STOR
          /\ eval_stack_top < EVAL_STACK_MAX_DEPTH) =>
          /\ accum' = call'.location
          /\ MemoryUnchanged
    /\ ClosesGroupOf(CMD_STOR) =>
          LET s == AccumAtLevel(eval_stack_top - 1)
              A == accum
              v == IF HasFlag(call.cmd, FLG_NEG) THEN (UINT16_MOD - 1) - s ELSE s
          IN  /\ accum' = s
              /\ bit_memory' = bit_memory
              /\ SchemeValid(A) /\ SchemeRegion(A) >= 2
              /\ word_memory' = [word_memory EXCEPT
                                   ![SchemeRegion(A) - 2][SchemeIndex(A)] = v]

\* C20: STOR_{ executed with accumulator s on an evaluation stack that is
\* not full sets the accumulator to its operand; its matching close-group,
\* executed with accumulator A, calls memory.set(A, s, invert = saved Negate)
\* once and restores the accumulator to s; no other cell is written.
C20_GroupedStor == [][C20_Step]_vars

----------------------------------------------------------------------------
(* SpecInit: il_interp_init called with both stacks in use.  A nest of      *)
(* LOAD_{ groups is opened in a row after il_interp_init, up to and beyond  *)
(* the maximum depth; CALLs are nested from inside the nest when it is      *)
(* empty, full or overflowed; close-group and RET are executed at any time. *)

\* the nest is still being opened: no instruction but group openers since
\* il_interp_init
InNest == ~call.made \/ HasFlag(call.cmd, FLG_PAR)

InitInit ==
    /\ InitAPI
    /\ base = 0

NextInit ==
    \/ /\ InNest
       /\ call_stack_top = 0
       /\ ExecLOADSTOR(il_interp_parse(TokLOAD_G), GroupValue(eval_stack_top), 0)
       /\ UNCHANGED driver
    \/ /\ eval_stack_top \in {0, EVAL_STACK_MAX_DEPTH, MaxEvalTop}
       /\ ExecCAL(il_interp_parse(TokCALL), NUM_LINES - 1, CallSite)
       /\ UNCHANGED driver
    \/ ExecPAR(il_interp_parse(TokPAR), 0, 0) /\ UNCHANGED driver
    \/ ExecRET(il_interp_parse(TokRET), 0, 0) /\ UNCHANGED driver
    \/ il_interp_init /\ UNCHANGED driver

SpecInit == InitInit /\ [][NextInit]_vars

----------------------------------------------------------------------------
(* Claim on il_interp_init, checked under SpecInit *)

\* n more CALLs can be nested on the call stack: the k-th of them finds k
\* more entries than now, and is stored on top of them
CallsPushable(stack, top, n) ==
    \A k \in 0..(n - 1) :
        LET p == call_stack_push(stack, top + k, k)
        IN  p.ok /\ p.top = top + k + 1 /\ p.stack[top + k] = k

\* n more groups can be opened with their entry stored on the evaluation
\* stack
GroupsPushable(stack, top, n) ==
    \A k \in 0..(n - 1) :
        LET p == eval_stack_push(stack, top + k, k, k)
        IN  /\ top + k < EVAL_STACK_MAX_DEPTH
            /\ p.top = top + k + 1
            /\ p.stack[top + k] = [command |-> k, accum |-> k]

\* the state il_interp_init leaves
AfterInit ==
    /\ accum = 0
    /\ ~eval_stack_pop(eval_stack, eval_stack_top).ok
    /\ ~call_stack_pop(call_stack, call_stack_top).ok
    /\ CallsPushable(call_stack, call_stack_top, CALL_STACK_MAX_DEPTH)
    /\ GroupsPushable(eval_stack, eval_stack_top, EVAL_STACK_MAX_DEPTH)

C15_Step ==
    /\ ~call'.made => AfterInit'
    /\ (~call.made /\ Executes(CMD_PAR)) =>
          /\ UNCHANGED <<interp, memory>>
          /\ ret' = NextLine(call'.line)
    /\ (~call.made /\ Executes(CMD_RET)) =>
          /\ ret' = RET_SENTINEL
          /\ UNCHANGED <<interp, memory>>
    /\ (~call.made /\ Executes(CMD_CAL)) =>
          /\ ret' = call'.location
          /\ call_stack_top' = 1
          /\ call_stack'[0] = NextLine(call'.line)
    /\ (~call.made /\ OpensGroup) =>
          /\ eval_stack_top' = 1
          /\ eval_stack'[0] = [command |-> call'.cmd, accum |-> 0]

\* C15: il_interp_init resets the interpreter from any reachable state,
\* a full or overflowed evaluation stack and a full call stack included:
\* right after it the accumulator reads 0, a close-group is a no-op, a taken
\* RET returns 65535, and 20 nested CALLs and 20 nested groups can again be
\* pushed.
C15_InitResets == [][C15_Step]_vars

\* il_interp_init has been called after both stacks held 20 entries
C15_Witness ==
    /\ ~call.made
    /\ accum = 0 /\ eval_stack_top = 0 /\ call_stack_top = 0
    /\ eval_stack[EVAL_STACK_MAX_DEPTH - 1].accum = GroupValue(EVAL_STACK_MAX_DEPTH - 2)
    /\ call_stack[CALL_STACK_MAX_DEPTH - 1] = CALL_STACK_MAX_DEPTH

----------------------------------------------------------------------------
(* Claim on the halt flag, checked under SpecProg *)

\* run_to_end() returns: the pass is over
PassEnds == running /\ ~running'

C16_Step ==
    /\ (running /\ halt) =>
          /\ ~call'.made
          /\ current_line' = current_line \/ (pc = "finish" /\ current_line' = 0)
    /\ PassEnds => (halt \/ current_line >= NUM_LINES)
    /\ (PassEnds /\ pc # "finish") =>
          current_line' = IF halt THEN current_line ELSE 0

----------------------------------------------------------------------------
(* SpecParse: the driver stepping a program whose first line holds one      *)
(* token: each token of the demo's menu, and tokens outside of it as a      *)
(* caller of il_interp_parse may pass them.                                 *)

\* the command texts of the menu
menudata ==
    {<<"_">>, <<"L","O","A","D">>, <<"L","O","A","D","_","N">>,
     <<"L","O","A","D","_","I">>, <<"L","O","A","D","_","{">>,
     <<"L","O","A","D","_","N","{">>, <<"S","T","O","R">>,
     <<"S","T","O","R","_","N">>, <<"S","T","O","R","_","{">>,
     <<"S","T","O","R","_","N","{">>, <<"S","E","T">>, <<"R","S","T">>,
     <<"A","N","D">>, <<"A","N","D","_","N">>, <<"A","N","D","_","I">>,
     <<"A","N","D","_","{">>, <<"A","N","D","_","N","{">>, <<"O","R">>,
     <<"O","R","_","N">>, <<"O","R","_","I">>, <<"O","R","_","{">>,
     <<"O","R","_","N","{">>, <<"X","O","R">>, <<"X","O","R","_","I">>,
     <<"X","O","R","_","{">>, <<"A","D","D">>, <<"A","D","D","_","I">>,
     <<"A","D","D","_","{">>, <<"S","U","B">>, <<"S","U","B","_","I">>,
     <<"S","U","B","_","{">>, <<"M","U","L">>, <<"M","U","L","_","I">>,
     <<"M","U","L","_","{">>, <<"D","I","V">>, <<"D","I","V","_","I">>,
     <<"D","I","V","_","{">>, <<"G","T">>, <<"G","T","_","I">>,
     <<"G","T","_","{">>, <<"G","E">>, <<"G","E","_","I">>,
     <<"G","E","_","{">>, <<"E","Q">>, <<"E","Q","_","I">>,
     <<"E","Q","_","{">>, <<"N","E">>, <<"N","E","_","I">>,
     <<"N","E","_","{">>, <<"L","E">>, <<"L","E","_","I">>,
     <<"L","E","_","{">>, <<"L","T">>, <<"L","T","_","I">>,
     <<"L","T","_","{">>, <<"J","U","M","P">>, <<"J","U","M","P","_","C">>,
     <<"J","U","M","P","_","C","N">>, <<"C","A","L","L">>,
     <<"C","A","L","L","_","C">>, <<"C","A","L","L","_","C","N">>,
     <<"R","E","T">>, <<"R","E","T","_","C">>, <<"R","E","T","_","C","N">>,
     <<"}">>}

\* the empty token, tokens without a mnemonic, with text after a mnemonic,
\* with several flags, with flags the menu does not offer, with two '_'
OtherTokens ==
    {<<>>, <<"L">>, <<"L","O","A","D","E","D">>,
     <<"L","O","A","D","_","I","N","C","{">>, <<"X","O","R","_","N">>,
     <<"O","R","X">>, <<"I","N","_","C">>, <<"}","_","{">>,
     <<"S","E","T","_","N">>, <<"J","U","M","P","_","C","_","N">>,
     <<"N","_">>, <<"S","T","_","I">>, <<"A","D","D","_","I","{">>,
     <<"n","o","p">>}

Tokens == menudata \cup OtherTokens

InitParse ==
    /\ StartState
    /\ initialised = FALSE
    /\ init = FALSE
    /\ base = 0
    /\ program \in {ProgramOf(<< <<t, 0>> >>) : t \in Tokens}

NextParse ==
    \/ prog_init
    \/ prog_step

SpecParse == InitParse /\ [][NextParse]_vars

----------------------------------------------------------------------------
(* Claim on parsing, checked under SpecParse *)

\* the token of the first line, and what the driver makes of it
ParsedToken == program[0].text

\* m is a prefix of t
IsPrefix(m, t) == Len(m) <= Len(t) /\ SubSeq(t, 1, Len(m)) = m

\* the opcode of the first mnemonic of the ordered list that is a prefix of
\* the token, the no-op when there is none
FirstPrefixOpcode(t) ==
    IF \E i \in 1..Len(Mnemonics) : IsPrefix(Mnemonics[i][1], t)
    THEN LET i == CHOOSE i \in 1..Len(Mnemonics) :
                    /\ IsPrefix(Mnemonics[i][1], t)
                    /\ \A j \in 1..(i - 1) : ~IsPrefix(Mnemonics[j][1], t)
         IN  Mnemonics[i][2]
    ELSE 0

\* the character occurs in the token after a '_'
AfterSeparator(ch, t) ==
    \E i \in 1..Len(t), k \in 1..Len(t) : i < k /\ t[i] = "_" /\ t[k] = ch

\* the bit of weight w of a code
Bit(code, w) == (code \div w) % 2

\* C17: for every token of the menu, and any token, the low 8 bits of the
\* code are the opcode of the first mnemonic of the ordered list that is a
\* prefix of the token (0, the no-op, when none is), always in 0..21; the
\* flag bits Immediate, Negate, Conditional, BeginGroup are set exactly for
\* the characters I, N, C, { that occur after the first '_', whatever the
\* opcode and the other flags; no flag bit overlaps the opcode bits; and the
\* code the driver executes is this code each time the line is run.
C17_ParseContract ==
    LET t == ParsedToken
        code == il_interp_parse(t)
    IN  /\ code \in 0..(UINT16_MOD - 1)
        /\ code % 256 = FirstPrefixOpcode(t)
        /\ code % 256 \in 0..21
        /\ Bit(code, 4096) = 1 <=> AfterSeparator("I", t)
        /\ Bit(code, 8192) = 1 <=> AfterSeparator("N", t)
        /\ Bit(code, 16384) = 1 <=> AfterSeparator("C", t)
        /\ Bit(code, 32768) = 1 <=> AfterSeparator("{", t)
        /\ \A w \in {256, 512, 1024, 2048} : Bit(code, w) = 0
        /\ (call.made /\ call.line = 0) => call.cmd = code

\* AND_N{ has been parsed and executed as AND with Negate and BeginGroup
C17_Witness ==
    /\ ParsedToken = <<"A","N","D","_","N","{">>
    /\ call.made /\ call.line = 0
    /\ call.cmd = CMD_AND + FLG_NEG + FLG_PAR
    /\ eval_stack_top = 1

----------------------------------------------------------------------------
(* SpecArith: the programs  LOAD_I a; OP b  for the binary operators but    *)
(* DIV, plain and with Immediate and Negate, on operands that are values,   *)
(* a bit cell and a word cell; the cells are written by  LOAD_I a; STOR,    *)
(* LOAD_I a; SET  and  LOAD_I a; RST.                                       *)

ArithMnemonics ==
    {Mnemonics[i][1] : i \in {j \in 1..Len(Mnemonics) :
        Mnemonics[j][2] \in (CMD_AND..CMD_LT) \ {CMD_DIV}}}

ArithTokens ==
    {m \o sfx : m \in ArithMnemonics,
                sfx \in {<< >>, <<"_","I">>, <<"_","N">>, <<"_","I","N">>}}

ArithCmds == {il_interp_parse(t) : t \in ArithTokens}

\* 0, 1, a value with one more low bit, the top bit alone, and all bits
ArithValues == {0, 1, 3, UINT16_MOD \div 2, UINT16_MOD - 1}

\* the first bit cell of bank A and the first word cell of bank A
ArithCells == {1, WORD_BANK_A + 1}

\* the latest instruction was LOAD_I
Loaded == call.made /\ call.cmd = il_interp_parse(TokLOAD_I)

InitArith ==
    /\ InitAPI
    /\ base = 0

NextArith ==
    \/ \E a \in ArithValues :
          ExecLOADSTOR(il_interp_parse(TokLOAD_I), a, 0) /\ UNCHANGED driver
    \/ \E c \in ArithCmds :
          \E b \in (IF HasFlag(c, FLG_IMM) THEN ArithValues ELSE ArithCells) :
             Loaded /\ ExecBinary(c, b, 1) /\ UNCHANGED driver
    \/ Loaded /\ ExecLOADSTOR(il_interp_parse(TokSTOR), WORD_BANK_A + 1, 1)
              /\ UNCHANGED driver
    \/ Loaded /\ ExecSET(il_interp_parse(TokSET), 1, 1) /\ UNCHANGED driver
    \/ Loaded /\ ExecRST(il_interp_parse(TokRST), 1, 1) /\ UNCHANGED driver

SpecArith == InitArith /\ [][NextArith]_vars

----------------------------------------------------------------------------
(* Claim on the binary operators, checked under SpecArith *)

\* bit i of a 16-bit value
BitAt(x, i) == (x \div (2 ^ i)) % 2

\* the 16-bit value whose bit i is f[<<bit i of a, bit i of b>>]
Bitwise16(f, a, b) ==
    LET S[i \in 0..16] ==
          IF i = 16 THEN 0
          ELSE (2 ^ i) * f[<<BitAt(a, i), BitAt(b, i)>>] + S[i + 1]
    IN  S[0]

BitAnd == [p \in {0, 1} \X {0, 1} |-> IF p[1] = 1 /\ p[2] = 1 THEN 1 ELSE 0]
BitOr  == [p \in {0, 1} \X {0, 1} |-> IF p[1] = 1 \/ p[2] = 1 THEN 1 ELSE 0]
BitXor == [p \in {0, 1} \X {0, 1} |-> IF p[1] # p[2] THEN 1 ELSE 0]

\* a * b modulo 2^16, as the sum of a * (b mod 2^8) and of
\* a * (b div 2^8) * 2^8, each reduced modulo 2^16
Product16(a, b) ==
    (((a * (b % 256)) % UINT16_MOD)
       + (((a * (b \div 256)) % 256) * 256)) % UINT16_MOD

\* op(a, b) of the instruction set on 16-bit unsigned values
OperatorValue(op, a, b) ==
    CASE op = CMD_AND -> Bitwise16(BitAnd, a, b)
      [] op = CMD_OR  -> Bitwise16(BitOr, a, b)
      [] op = CMD_XOR -> Bitwise16(BitXor, a, b)
      [] op = CMD_ADD -> (a + b) % UINT16_MOD
      [] op = CMD_SUB -> (a - b + UINT16_MOD) % UINT16_MOD
      [] op = CMD_MUL -> Product16(a, b)
      [] op = CMD_GT  -> IF a > b THEN 1 ELSE 0
      [] op = CMD_GE  -> IF a >= b THEN 1 ELSE 0
      [] op = CMD_EQ  -> IF a = b THEN 1 ELSE 0
      [] op = CMD_NE  -> IF a # b THEN 1 ELSE 0
      [] op = CMD_LE  -> IF a <= b THEN 1 ELSE 0
      [] op = CMD_LT  -> IF a < b THEN 1 ELSE 0

\* a binary operator but DIV, not grouped, is executed
ExecutesOperator ==
    /\ call'.made
    /\ Opcode(call'.cmd) \in (CMD_AND..CMD_LT) \ {CMD_DIV}
    /\ ~HasFlag(call'.cmd, FLG_PAR)

\* the operand value: the operand itself if Immediate, else the cell read
\* un-inverted; complemented bitwise with Negate
OperandValue ==
    LET b == IF HasFlag(call'.cmd, FLG_IMM) THEN call'.location
             ELSE mem_get(call'.location, FALSE)
    IN  IF HasFlag(call'.cmd, FLG_NEG) THEN (UINT16_MOD - 1) - b ELSE b

C18_Step ==
    ExecutesOperator =>
        /\ accum' = OperatorValue(Opcode(call'.cmd), accum, OperandValue)
        /\ ~fault'
        /\ MemoryUnchanged

\* C18: for every 16-bit accumulator a and operand value b, a binary
\* operator that is not grouped sets the accumulator to op(a, b'), b' being
\* b, or its 16-bit bitwise complement with Negate (for comparisons and for
\* values read un-inverted from bit cells too); ADD, SUB and MUL are reduced
\* modulo 2^16, AND, OR, XOR are bitwise, and GT, GE, EQ, NE, LE, LT give 1
\* or 0 by unsigned comparison.
C18_BinaryOperatorArithmetic == [][C18_Step]_vars

----------------------------------------------------------------------------
(* SpecFrame: JUMP, CALL, RET, the no-op with every combination of flags    *)
(* and the close-group, executed with values in the accumulator, in memory  *)
(* and on both stacks: LOAD_I, STOR and SET fill the accumulator and the    *)
(* memory, LOAD_{ opens groups up to MaxNest deep, CALLs nest up to         *)
(* MaxCalls deep.                                                           *)

\* CALLs are issued only below this call depth
MaxCalls == 2

\* the no-op with each subset of the four flags
NopCmds ==
    {CMD_NOP + i * FLG_IMM + n * FLG_NEG + c * FLG_CND + g * FLG_PAR :
        i \in {0, 1}, n \in {0, 1}, c \in {0, 1}, g \in {0, 1}}

InitFrame ==
    /\ InitAPI
    /\ base = 0

NextFrame ==
    \/ \E v \in {0, 1} :
          ExecLOADSTOR(il_interp_parse(TokLOAD_I), v, 0) /\ UNCHANGED driver
    \/ ExecLOADSTOR(il_interp_parse(TokSTOR), WORD_BANK_A + 1, 0)
          /\ UNCHANGED driver
    \/ ExecSET(il_interp_parse(TokSET), 1, 0) /\ UNCHANGED driver
    \/ /\ eval_stack_top < MaxNest
       /\ ExecLOADSTOR(il_interp_parse(TokLOAD_G), WORD_BANK_A + 1, 0)
       /\ UNCHANGED driver
    \/ ExecPAR(il_interp_parse(TokPAR), 0, NUM_LINES - 1) /\ UNCHANGED driver
    \/ \E c \in JumpCmds : ExecJMP(c, NUM_LINES, 0) /\ UNCHANGED driver
    \/ \E c \in CallCmds :
          /\ call_stack_top < MaxCalls
          /\ ExecCAL(c, NUM_LINES - 1, CallSite)
          /\ UNCHANGED driver
    \/ \E c \in RetCmds : ExecRET(c, 0, 0) /\ UNCHANGED driver
    \/ \E c \in NopCmds : ExecNOP(c, 1, UINT16_MOD - 1) /\ UNCHANGED driver
    \/ il_interp_init /\ UNCHANGED driver

SpecFrame == InitFrame /\ [][NextFrame]_vars

----------------------------------------------------------------------------
(* Claim on what control and no-op instructions leave alone, checked under  *)
(* SpecFrame                                                                *)

\* a conditional JUMP, CALL or RET whose condition is not met, a no-op, or a
\* close-group on an empty evaluation stack
DoesNothing ==
    /\ call'.made
    /\ \/ /\ Opcode(call'.cmd) \in {CMD_JMP, CMD_CAL, CMD_RET}
          /\ ~GateOpen(call'.cmd, accum)
       \/ Opcode(call'.cmd) = CMD_NOP
       \/ Opcode(call'.cmd) = CMD_PAR /\ eval_stack_top = 0

C21_Step ==
    /\ (call'.made /\ Opcode(call'.cmd) \in {CMD_JMP, CMD_CAL, CMD_RET}) =>
          /\ accum' = accum
          /\ MemoryUnchanged
          /\ UNCHANGED <<eval_stack, eval_stack_top, fault>>
    /\ DoesNothing =>
          /\ accum' = accum
          /\ MemoryUnchanged
          /\ UNCHANGED <<eval_stack, eval_stack_top, call_stack,
                         call_stack_top, fault>>
          /\ ret' = NextLine(call'.line)

\* C21: JUMP, CALL and RET, taken or not, never change the accumulator, the
\* memory or the evaluation stack; a conditional JUMP, CALL or RET whose
\* condition is not met, a no-op with any combination of flags (BeginGroup
\* included) and a close-group on an empty evaluation stack change nothing
\* at all and return the current line + 1.
C21_ControlFrame == [][C21_Step]_vars

\* the no-op with all four flags has been executed at line 65535 with a
\* value in the accumulator, in memory and on both stacks
C21_Witness ==
    /\ call.made
    /\ call.cmd = CMD_NOP + FLG_IMM + FLG_NEG + FLG_CND + FLG_PAR
    /\ ret = 0
    /\ accum = 1
    /\ word_memory[0][0] = 1
    /\ bit_memory[0][0]
    /\ eval_stack_top = 1
    /\ call_stack_top = MaxCalls

----------------------------------------------------------------------------
(* Claim on the response to halt, checked under FairSpecProg *)

\* halt has been requested while a scan is running
HaltRequested == running /\ halt

\* what the response to halt has in common in both readings: no further
\* line is executed, the scan ends, and so does execute_program()
HaltResponse ==
    /\ [][HaltRequested => ~call'.made]_vars
    /\ HaltRequested ~> (~running /\ pc = "idle")

\* C22 as stated: if halt is requested while a scan is running, the running
\* flag eventually becomes false after at most one further il_interp_execute
\* call, even for a program that would loop forever; the continuous execute
\* loop then ends, and current_line keeps the line at which the scan
\* stopped instead of being reset to 0.
C22_HaltKeepsLine ==
    /\ HaltResponse
    /\ [][(PassEnds /\ halt) => current_line' = current_line]_vars

\* C22 as the driver does it: the same, but the line is kept only by a scan
\* of prog_run() or of a cycle of execute_program(); when the halted scan is
\* the one execute_program() starts with to finish the current run, the
\* prog_init() that follows it resets current_line to 0.
C22_HaltStopsScan ==
    /\ HaltResponse
    /\ [][(PassEnds /\ halt) =>
            current_line' = IF pc = "finish" THEN 0 ELSE current_line]_vars

\* halt has been requested in the never-ending program while
\* execute_program() finishes the current run at line 1
C22_Witness ==
    /\ HaltRequested
    /\ pc = "finish"
    /\ program = ProgramOf(LoopText)
    /\ current_line = 1
    /\ ret = 1

----------------------------------------------------------------------------
(* Claim on the scan of a program without branches, under FairSpecProg *)

\* the program holds no JUMP, CALL or RET
StraightLine ==
    \A l \in 0..(NUM_LINES - 1) :
        \/ program[l].text = NoCommand
        \/ Opcode(il_interp_parse(program[l].text)) \notin {CMD_JMP, CMD_CAL, CMD_RET}

\* the step executes the line the driver is at: one call of
\* il_interp_execute for the command of that line, none for an empty line
ExecutesCurrentLine ==
    /\ current_line < NUM_LINES
    /\ current_line' = current_line + 1
    /\ IF program[current_line].text = NoCommand
       THEN ~call'.made
       ELSE call' = [made |-> TRUE,
                     cmd |-> il_interp_parse(program[current_line].text),
                     location |-> program[current_line].value,
                     line |-> current_line]

C23_Step ==
    StraightLine =>
        /\ call'.made => ExecutesCurrentLine
        /\ (running' /\ current_line' # current_line) => ExecutesCurrentLine
        /\ (PassEnds /\ ~halt) =>
                current_line = NUM_LINES /\ current_line' = 0

----------------------------------------------------------------------------
(* Claim on the order of initialisation in the driver, under SpecProg *)

C24_Step ==
    \* no call of il_interp_execute before il_interp_init
    /\ call'.made => (init /\ initialised)
    \* il_interp_init is called by the first init request only
    /\ (~initialised /\ initialised') =>
            (~init /\ init' /\ current_line' = 0 /\ ~call'.made)
    \* and never again: once initialised, only calls of il_interp_execute
    \* change the state of the interpreter
    /\ initialised =>
            /\ initialised' /\ init'
            /\ ~call'.made => UNCHANGED <<interp, memory>>
    \* a later init request, where it is not ignored, resets the line (the
    \* other change of the line without a call is a step over an empty line)
    /\ (init /\ ~running /\ ~call'.made /\ current_line' # current_line) =>
            \/ current_line' = 0
            \/ /\ current_line < NUM_LINES
               /\ program[current_line].text = NoCommand
               /\ current_line' = current_line + 1

\* C24: under every interleaving of the init, step, run, halt and execute
\* callbacks, il_interp_execute is never called before il_interp_init has
\* been called, and il_interp_init is called at most once: a later init
\* request only resets current_line to 0.
C24_InitOnce == [][C24_Step]_vars

\* init has been requested again after the first line of the scenario was
\* executed: the line is back at 0 and the accumulator still holds 5
C24_Witness ==
    /\ init /\ initialised /\ ~running
    /\ program = ProgramOf(ScenarioText)
    /\ current_line = 0
    /\ accum = 5
    /\ mem_get(WORD_BANK_B + 1, FALSE) = 0

----------------------------------------------------------------------------
(* Claim on the callbacks dispatched during a scan, under SpecProg *)

\* the scan loop executes the line it is at
ScanExecutesLine ==
    /\ ~halt
    /\ current_line < NUM_LINES
    /\ IF program[current_line].text = NoCommand
       THEN /\ ~call'.made
            /\ current_line' = current_line + 1
            /\ UNCHANGED <<interp, memory>>
       ELSE /\ call'.made
            /\ call'.line = current_line
            /\ call'.cmd = il_interp_parse(program[current_line].text)
            /\ current_line' = ret'

\* halt is requested
OnlyHaltChanges ==
    /\ halt'
    /\ ~call'.made
    /\ UNCHANGED <<interp, memory, program, current_line, init, running, pc>>

C25_Step ==
    (running /\ running') =>
        \* a step of the scan in progress, or a request to halt, and nothing
        \* else: no other change of the line, no other call of
        \* il_interp_execute, no call of il_interp_init
        /\ ScanExecutesLine \/ OnlyHaltChanges
        \* no scan is started inside the scan, and halt is not withdrawn
        /\ UNCHANGED <<program, init, initialised, pc>>
        /\ halt => halt'

\* C25: while a scan is running and the callbacks are dispatched from inside
\* the scan loop, the step, init, run and execute callbacks have no effect:
\* they do not change current_line, do not call il_interp_execute or
\* il_interp_init and do not start a nested scan; only halt changes the
\* state of the driver, so that at most one scan loop is active.
C25_ReentrancyGuard == [][C25_Step]_vars

\* halt has been requested from inside a scan of the program with a
\* command on every line, between line 1 and line 2
C25_Witness ==
    /\ running /\ halt
    /\ program = ProgramOf(StraightText)
    /\ current_line = 2
    /\ ~call.made

----------------------------------------------------------------------------
(* Claim on the bound of the program lines, under FairSpecProg *)

\* the driver is at no line of the program
PastProgram == current_line >= NUM_LINES

C26_Step ==
    \* a line is fetched and executed only below NUM_LINES
    /\ call'.made => (current_line < NUM_LINES /\ call'.line = current_line)
    \* past the program nothing is executed: the line stays or is reset
    /\ PastProgram =>
            /\ ~call'.made
            /\ UNCHANGED <<interp, memory>>
            /\ current_line' = current_line \/ current_line' = 0
    \* a scan that is past the program and not halted ends with the reset
    /\ (PastProgram /\ PassEnds /\ ~halt) => current_line' = 0

\* C26: a program line is fetched and executed only when current_line < 31;
\* whatever next line execute returns (a JUMP or CALL target beyond the
\* program, a popped return line, line + 1 of the last line, the sentinel
\* 65535), the driver never indexes the program with a line >= 31, and a
\* pass that leaves the valid range ends the scan normally.
C26_LineBound ==
    /\ [][C26_Step]_vars
    /\ (running /\ PastProgram) ~> ~running

\* a scan has run into the sentinel: the RET of line 1 found the call stack
\* empty
C26_Witness ==
    /\ running
    /\ program = ProgramOf(OutOfRangeText)
    /\ call.made /\ Opcode(call.cmd) = CMD_RET
    /\ current_line = RET_SENTINEL

----------------------------------------------------------------------------
(* SpecPersist: the driver with a program that leaves entries on both      *)
(* stacks in every scan. The group of line 1 is never closed and the CALL  *)
(* of line 2 leaves the program; once the call stack is full the CALL      *)
(* moves on to the RET of line 3, which pops the entries.                  *)

PersistText ==
    << <<TokLOAD_I, 7>>, <<TokADD_G, 1>>, <<TokCALL, NUM_LINES>>, <<TokRET, 0>> >>

InitPersist ==
    /\ StartState
    /\ initialised = FALSE
    /\ init = FALSE
    /\ program = ProgramOf(PersistText)
    /\ base = 0

SpecPersist == InitPersist /\ [][NextProg]_vars

C27_Step ==
    \* the end of a scan resets the line, or keeps it when halted, and
    \* leaves the interpreter alone
    /\ PassEnds =>
            /\ UNCHANGED <<interp, memory>>
            /\ current_line' = 0 \/ (halt /\ current_line' = current_line)
    \* so does a request of init after the first one, and whatever else
    \* happens between two scans, but for the lines stepped through: the
    \* first line of the next scan is executed on that state
    /\ (init /\ ~running /\ ~call'.made) => UNCHANGED <<interp, memory>>

\* C27: finishing a scan, or pressing init after the first initialisation,
\* resets only current_line to 0 and leaves the accumulator, the evaluation
\* stack and the call stack as the last executed instruction left them:
\* entries pushed by CALLs without a RET or by groups opened and not closed
\* in one scan are still on the stacks at the start of the next scan.
C27_StatePersists == [][C27_Step]_vars

\* after two scans, at the start of the third: two open groups and two
\* return lines are on the stacks
C27_Witness ==
    /\ init /\ ~running /\ ~halt
    /\ current_line = 0
    /\ eval_stack_top = 2
    /\ eval_stack[1] = [command |-> il_interp_parse(TokADD_G), accum |-> 7]
    /\ call_stack_top = 2
    /\ call_stack[1] = 3

----------------------------------------------------------------------------
(* SpecSlots: il_interp_execute and il_interp_init called directly, on one *)
(* of the two stacks at a time. Groups are opened by OR_{ and AND_{ with   *)
(* the accumulator loaded with a value of SlotValues, CALLs come from the  *)
(* lines of SlotLines; from VariedLevels entries on, every entry is the    *)
(* same, so that the stacks can be filled beyond their depth.              *)

TokOR_G  == <<"O","R","_","{">>
TokAND_G == <<"A","N","D","_","{">>

SlotCmds == <<il_interp_parse(TokOR_G), il_interp_parse(TokAND_G)>>
SlotValues == {1, 2}
SlotLines == <<3, 9>>
VariedLevels == 2

\* no entry has been written to the stack yet
EvalStackUnused ==
    /\ eval_stack_top = 0
    /\ \A k \in 0..(EVAL_STACK_MAX_DEPTH - 1) :
            eval_stack[k] = [command |-> 0, accum |-> 0]
CallStackUnused ==
    /\ call_stack_top = 0
    /\ \A k \in 0..(CALL_STACK_MAX_DEPTH - 1) : call_stack[k] = 0

\* the interpreter after il_interp_init and INT_MAX - 1 executions of
\* OR_{ 1 from line 0: the first 20 were stored, every one was counted
ManyGroupsOpen ==
    /\ accum = 0
    /\ eval_stack = [i \in 0..(EVAL_STACK_MAX_DEPTH - 1) |->
                        [command |-> SlotCmds[1], accum |-> 0]]
    /\ eval_stack_top = INT_MAX - 1
    /\ groups = [i \in 1..EVAL_STACK_MAX_DEPTH |->
                    [command |-> SlotCmds[1], accum |-> 0]]
    /\ call_stack = [i \in 0..(CALL_STACK_MAX_DEPTH - 1) |-> 0]
    /\ call_stack_top = 0
    /\ sites = << >>
    /\ bit_memory = [c \in 0..1 |-> [r \in 0..(MEM_SIZE - 1) |-> FALSE]]
    /\ word_memory = [c \in 0..1 |-> [r \in 0..(MEM_SIZE - 1) |-> 0]]
    /\ fault = FALSE
    /\ call = [made |-> TRUE, cmd |-> SlotCmds[1], location |-> 1, line |-> 0]
    /\ ret = 1
    /\ initialised = TRUE
    /\ init = TRUE
    /\ program = EmptyProgram
    /\ current_line = 0
    /\ halt = FALSE
    /\ running = FALSE
    /\ pc = "idle"

InitSlots == (InitAPI \/ ManyGroupsOpen) /\ base = 0

NextSlots ==
    \/ \E v \in SlotValues :
          /\ CallStackUnused
          /\ eval_stack_top < VariedLevels
          /\ ExecLOADSTOR(il_interp_parse(TokLOAD_I), v, 0)
          /\ UNCHANGED driver
    \/ \E i \in 1..Len(SlotCmds) :
          /\ CallStackUnused
          /\ i = 1 \/ eval_stack_top < VariedLevels
          /\ ExecBinary(SlotCmds[i], 1, 0)
          /\ UNCHANGED driver
    \/ /\ CallStackUnused
       /\ ExecPAR(il_interp_parse(TokPAR), 0, 0)
       /\ UNCHANGED driver
    \/ \E i \in 1..Len(SlotLines) :
          /\ EvalStackUnused
          /\ i = 1 \/ call_stack_top < VariedLevels
          /\ ExecCAL(il_interp_parse(TokCALL), 7, SlotLines[i])
          /\ UNCHANGED driver
    \/ /\ EvalStackUnused
       /\ ExecRET(il_interp_parse(TokRET), 0, 0)
       /\ UNCHANGED driver
    \/ il_interp_init /\ UNCHANGED driver

SpecSlots == InitSlots /\ [][NextSlots]_vars

----------------------------------------------------------------------------
(* Claim on the slots of the two stacks, checked under SpecSlots *)

\* the slots below the top hold, in their order, what the pushes that are
\* not yet popped have stored; both tops stay where the next access is
\* inside the array or refused
LiveSlots ==
    /\ call_stack_top \in 0..CALL_STACK_MAX_DEPTH
    /\ Len(sites) = call_stack_top
    /\ \A k \in 1..Len(sites) : call_stack[k - 1] = NextLine(sites[k])
    /\ eval_stack_top >= 0
    /\ Len(groups) = IF eval_stack_top < EVAL_STACK_MAX_DEPTH
                     THEN eval_stack_top ELSE EVAL_STACK_MAX_DEPTH
    /\ \A k \in 1..Len(groups) : eval_stack[k - 1] = groups[k]

\* the step pops an entry
PopsGroup == Executes(CMD_PAR) /\ eval_stack_top' # eval_stack_top
PopsCall == Executes(CMD_RET) /\ call_stack_top' # call_stack_top

C28_Step ==
    \* a write goes to the slot at the top, inside the array
    /\ (OpensGroup /\ eval_stack_top < EVAL_STACK_MAX_DEPTH) =>
            eval_stack_top \in 0..(EVAL_STACK_MAX_DEPTH - 1)
    /\ eval_stack' # eval_stack =>
            /\ eval_stack_top \in 0..(EVAL_STACK_MAX_DEPTH - 1)
            /\ \A k \in 0..(EVAL_STACK_MAX_DEPTH - 1) :
                    k # eval_stack_top => eval_stack'[k] = eval_stack[k]
    /\ call_stack' # call_stack =>
            /\ call_stack_top \in 0..(CALL_STACK_MAX_DEPTH - 1)
            /\ \A k \in 0..(CALL_STACK_MAX_DEPTH - 1) :
                    k # call_stack_top => call_stack'[k] = call_stack[k]
    \* a pop reads the slot below the top, inside the array, and returns
    \* what the latest push not yet popped has stored
    /\ PopsGroup =>
            /\ eval_stack_top' = eval_stack_top - 1
            /\ eval_stack_top' \in 0..(EVAL_STACK_MAX_DEPTH - 1)
            /\ LET g == groups[Len(groups)]
               IN  accum' = Apply(Opcode(g.command), g.accum, accum,
                                  HasFlag(g.command, FLG_NEG))
    /\ PopsCall =>
            /\ call_stack_top' = call_stack_top - 1
            /\ call_stack_top' \in 0..(CALL_STACK_MAX_DEPTH - 1)
            /\ ret' = NextLine(sites[Len(sites)])

\* C28: in every reachable state every read or write of the evaluation-stack
\* and call-stack arrays uses an index in 0..19, and every successful pop
\* returns the (command, accumulator) pair or the return line stored by the
\* most recent push that has not yet been popped, never a slot that was not
\* written or that holds an entry of an earlier push.
C28_StackSlotSafety == []LiveSlots /\ [][C28_Step]_vars

=============================================================================
